---- MODULE Spec2Model ----
(***************************************************************************)
(* FoodMoment backend (FastAPI + SQLAlchemy): the request handlers of      *)
(* app/api/v1, the auth dependency of app/api/deps.py and the services of  *)
(* app/services, as a state machine over the five tables.                  *)
(*                                                                         *)
(* Every action is one HTTP request handled to completion: the dependency  *)
(* get_current_user_id, the handler body, and the end of the session scope *)
(* (commit when the handler returns, rollback when it raises).             *)
(* Times are minutes; a datetime is [wall, aware, off]: the wall-clock     *)
(* reading, whether it carries a tzinfo, and that tzinfo's UTC offset.     *)
(***************************************************************************)
EXTENDS Integers, Sequences, FiniteSets, TLC

\* ---------------------------------------------------------------- bounds
\* rows POST /meals, POST /water and POST /user/weight may add in one run
MaxMealRows == 2
MaxWaterRows == 1
MaxWeightRows == 1

\* ------------------------------------------------------- program constants
MinDeviceIdLen == 10
PlaceholderName == "FoodMoment User"
MaxImageBytes == 10 * 1024 * 1024
DefaultWaterMl == 250

\* ---------------------------------------------------------------- domains
NoUser == 0
AppleSubjects == {"apple-A", "apple-B"}
\* users rows ever created: one per subject, or one subject signing up again
MaxUserRows == Cardinality(AppleSubjects)
UserIds == 1..MaxUserRows
\* a path parameter that uuid.UUID() rejects
MalformedId == 0
\* request bodies of POST /auth/device: the device_id field, or the field missing
AbsentField == "<absent>"
DeviceIds == {"", "short-id9", "device-AAA", "device-BBBB"}
Instants == {720}
Offsets == {-60, 0, 60}
\* the server clock when a run starts: noon of day 0
ClockStart == 12 * 60
\* the nutrition fields of a POST /meals body
Lunch == [total_calories |-> 500, protein_grams |-> 30, carbs_grams |-> 60,
          fat_grams |-> 15, fiber_grams |-> 5]
\* how many detected foods a POST /meals body carries
FoodCounts == {0, 1}

VARIABLES
    users,       \* table users: set of rows
    meals,       \* table meal_records
    foods,       \* table detected_foods
    water,       \* table water_logs
    weight,      \* table weight_logs
    ids,         \* primary keys handed out so far in users and meal_records (uuid4
                 \* never repeats; tokens and child rows may still name a deleted key)
    fkEnforced,  \* does the deployed schema carry the detected_foods -> meal_records constraint
    driverStrict,\* does the database driver reject a tz-aware value for a naive DateTime column
    now,         \* the server clock (UTC), in minutes
    _apple_keys_cache,      \* auth_service module global: <<>> for None, else <<key set>>
    _apple_keys_fetched_at, \* auth_service module global: <<>> for None, else <<minute>>
    key_calls,   \* calls of _get_apple_public_keys suspended at `await client.get`
    _client,     \* storage_service._client: <<>> for None, else <<client>>
    blobs,       \* the blobs of the storage container
    storage_calls, \* the calls made on the StorageService singleton, with their outcomes
    resp         \* the last request and its response

vars == <<users, meals, foods, water, weight, ids, fkEnforced, driverStrict, now,
          _apple_keys_cache, _apple_keys_fetched_at, key_calls, _client, blobs,
          storage_calls, resp>>
db == <<users, meals, foods, water, weight, ids>>
\* the module-level state of the services
services == <<_apple_keys_cache, _apple_keys_fetched_at, key_calls, _client, blobs,
              storage_calls>>
env == <<fkEnforced, driverStrict, now, services>>

\* ------------------------------------------------------------- datetimes
Aware(wall, off) == [wall |-> wall, aware |-> TRUE, off |-> off]
Naive(wall) == [wall |-> wall, aware |-> FALSE, off |-> 0]
\* the instant t written with UTC offset o
AtOffset(t, o) == Aware(t + o, o)
\* the UTC instant an aware datetime denotes
InstantOf(dt) == dt.wall - dt.off
\* datetime.replace(tzinfo=None): the wall reading is kept, the offset is dropped
StripTz(dt) == Naive(dt.wall)
\* datetime.replace(tzinfo=timezone.utc)
_ensure_utc(dt) == IF dt.aware THEN dt ELSE Aware(dt.wall, 0)

\* ------------------------------------------------------------------ JWTs
\* A bearer credential: none (no Authorization header) or a JWT, of which
\* jose.jwt.decode sees whether signature and expiry verify, and the claims.
NoHeader == [kind |-> "none", valid |-> FALSE, hasSub |-> FALSE, subIsUuid |-> FALSE,
             sub |-> NoUser, type |-> "none"]
Jwt(valid, hasSub, subIsUuid, sub, type) ==
    [kind |-> "bearer", valid |-> valid, hasSub |-> hasSub, subIsUuid |-> subIsUuid,
     sub |-> sub, type |-> type]
create_access_token(user_id) == Jwt(TRUE, TRUE, TRUE, user_id, "access")
create_refresh_token(user_id) == Jwt(TRUE, TRUE, TRUE, user_id, "refresh")
\* the same tokens once tampered with or expired
Spoiled(tok) == [tok EXCEPT !.valid = FALSE]
Tokens ==
    {create_access_token(u) : u \in UserIds} \cup {create_refresh_token(u) : u \in UserIds}
    \cup {Spoiled(create_access_token(1)), Spoiled(create_refresh_token(1))}
    \cup {Jwt(TRUE, FALSE, FALSE, NoUser, ty) : ty \in {"access", "refresh"}}
    \cup {Jwt(TRUE, TRUE, FALSE, NoUser, ty) : ty \in {"access", "refresh"}}
Credentials == {NoHeader} \cup Tokens

\* every user id handed out so far, whether or not its row still exists
UserRowIdsEverIssued == 1..ids.user

UserRowIds == {u.id : u \in users}

\* deps.get_current_user_id: [status, uid]; 200 stands for "returned uid"
get_current_user_id(cred) ==
    IF cred.kind = "none"
    THEN \* HTTPBearer() finds no Authorization header
         [status |-> 401, uid |-> NoUser]
    ELSE IF ~cred.valid
    THEN \* jwt.decode raises JWTError, caught
         [status |-> 401, uid |-> NoUser]
    ELSE IF ~cred.hasSub
    THEN [status |-> 401, uid |-> NoUser]
    ELSE IF ~cred.subIsUuid
    THEN \* uuid.UUID raises ValueError; only JWTError is caught
         [status |-> 500, uid |-> NoUser]
    ELSE IF cred.sub \notin UserRowIds
    THEN [status |-> 401, uid |-> NoUser]
    ELSE \* the "type" claim is not read
         [status |-> 200, uid |-> cred.sub]

\* auth_service.verify_refresh_token: the uid, or ValueError (a JWTError is
\* re-raised as ValueError; uuid.UUID raises ValueError itself)
verify_refresh_token(tok) ==
    IF ~tok.valid THEN [outcome |-> "ValueError", uid |-> NoUser]
    ELSE IF tok.type # "refresh" THEN [outcome |-> "ValueError", uid |-> NoUser]
    ELSE IF ~tok.hasSub THEN [outcome |-> "ValueError", uid |-> NoUser]
    ELSE IF ~tok.subIsUuid THEN [outcome |-> "ValueError", uid |-> NoUser]
    ELSE [outcome |-> "ok", uid |-> tok.sub]

\* ------------------------------------------------------------- responses
None == "None"
NoBody == [kind |-> "none"]
Resp(op, status, caller, cred, req, body) ==
    [op |-> op, status |-> status, caller |-> caller, cred |-> cred, req |-> req,
     body |-> body]
\* TokenResponse(access_token, refresh_token)
TokenResponse(user_id) ==
    [kind |-> "tokens", access_token |-> create_access_token(user_id),
     refresh_token |-> create_refresh_token(user_id)]

\* the session scope ends in rollback: nothing the handler wrote is kept
Rollback == UNCHANGED db
\* a request refused before the handler body runs, or a handler that raised
Refuse(op, status, caller, cred, req) ==
    /\ resp' = Resp(op, status, caller, cred, req, NoBody)
    /\ Rollback

\* ------------------------------------------------------------- Auth API
\* auth_service.find_user_by_apple_id: the rows a lookup by subject returns
find_user_by_apple_id(apple_user_id) == {u \in users : u.apple_user_id = apple_user_id}

\* the truth value of an optional string: None and "" are false
Truthy(x) == x \notin {None, ""}

\* auth_service.create_user_from_apple: the new row
create_user_from_apple(id, apple_user_id, email, full_name) ==
    [id |-> id, apple_user_id |-> apple_user_id,
     display_name |-> IF Truthy(full_name) THEN full_name ELSE PlaceholderName,
     email |-> email]

\* a sign-in that takes the submitted name whatever the stored one is
MayTakeNameAlways(user) == TRUE

\* user.display_name == "FoodMoment User"
MayTakeName(user) == user.display_name = PlaceholderName

\* POST /auth/apple. verified is what verify_apple_identity_token did with the
\* identity token: raised ValueError, raised another error (the key fetch), or
\* returned the claims sub and email.
sign_in_with_apple(verified, req_email, req_full_name) ==
    LET req == [kind |-> "apple", verified |-> verified, email |-> req_email,
                full_name |-> req_full_name]
    IN
    IF verified.outcome = "ValueError" THEN Refuse("sign_in_with_apple", 401, NoUser, NoHeader, req)
    ELSE IF verified.outcome # "ok" THEN Refuse("sign_in_with_apple", 500, NoUser, NoHeader, req)
    ELSE
      LET found == find_user_by_apple_id(verified.sub) IN
      IF found = {}
      THEN /\ ids.user < MaxUserRows
           /\ LET id == ids.user + 1
                  row == create_user_from_apple(
                             id, verified.sub,
                             IF Truthy(req_email) THEN req_email ELSE verified.email,
                             req_full_name)
              IN /\ users' = users \cup {row}
                 /\ ids' = [ids EXCEPT !.user = id]
                 /\ resp' = Resp("sign_in_with_apple", 200, id, NoHeader, req,
                                 TokenResponse(id))
           /\ UNCHANGED <<meals, foods, water, weight>>
      ELSE \E user \in found :
             LET e == IF Truthy(req_email) /\ ~Truthy(user.email) THEN req_email
                      ELSE user.email
                 n == IF Truthy(req_full_name) /\ MayTakeName(user)
                      THEN req_full_name ELSE user.display_name
                 row == [user EXCEPT !.email = e, !.display_name = n]
             IN /\ users' = (users \ {user}) \cup {row}
                /\ resp' = Resp("sign_in_with_apple", 200, user.id, NoHeader, req,
                                TokenResponse(user.id))
                /\ UNCHANGED <<meals, foods, water, weight, ids>>

\* the guard of device_auth on the request's device_id
InvalidDeviceId(device_id) == device_id = "" \/ Len(device_id) < MinDeviceIdLen

\* POST /auth/device. body_device_id is the device_id field of the JSON body,
\* or AbsentField when the body has none (DeviceAuthRequest.device_id: str is
\* required, so FastAPI answers 422 before the handler runs).
device_auth(body_device_id) ==
    LET req == [kind |-> "device", device_id |-> body_device_id] IN
    IF body_device_id = AbsentField THEN Refuse("device_auth", 422, NoUser, NoHeader, req)
    ELSE IF InvalidDeviceId(body_device_id) THEN Refuse("device_auth", 400, NoUser, NoHeader, req)
    ELSE \* auth_service.find_or_create_user_by_device_id(db, device_id): the module
         \* app/services/auth_service.py defines no such function, so the call
         \* raises AttributeError before any row is read or written
         Refuse("device_auth", 500, NoUser, NoHeader, req)

\* POST /auth/refresh
refresh_token(tok) ==
    LET req == [kind |-> "refresh", refresh_token |-> tok]
        v == verify_refresh_token(tok)
    IN
    IF v.outcome # "ok" THEN Refuse("refresh_token", 401, NoUser, tok, req)
    ELSE IF v.uid \notin UserRowIds THEN Refuse("refresh_token", 401, NoUser, tok, req)
    ELSE /\ resp' = Resp("refresh_token", 200, v.uid, tok, req, TokenResponse(v.uid))
         /\ UNCHANGED db

\* the columns of the User entity
UserColumns ==
    {"id", "apple_user_id", "display_name", "email", "avatar_url", "is_pro",
     "daily_calorie_goal", "daily_protein_goal", "daily_carbs_goal", "daily_fat_goal",
     "target_weight", "created_at", "updated_at"}
\* what a column the model row leaves out holds: its default, NULL for a
\* nullable one (a numeric NULL is <<>>, a numeric value v is <<v>>)
ColumnDefault ==
    [avatar_url |-> None, daily_calorie_goal |-> 2000, daily_protein_goal |-> 50,
     daily_carbs_goal |-> 250, daily_fat_goal |-> 65, target_weight |-> <<>>]
\* the defaults UserProfileResponse gives the fields it does not require
ResponseDefault ==
    [gender |-> None, birth_year |-> <<>>, height_cm |-> <<>>, activity_level |-> None,
     daily_water_goal |-> 2500, daily_step_goal |-> 10000]
\* model_validate(user) with from_attributes: an attribute the object has
\* is read from it, a column the model row leaves out holds its default, and a
\* field that is no attribute of the object takes the schema's default
Attribute(user, f) ==
    IF f \in DOMAIN user THEN user[f]
    ELSE IF f \in UserColumns THEN ColumnDefault[f]
    ELSE ResponseDefault[f]
UserProfileResponse(user) ==
    [f \in {"kind", "id", "display_name", "email"} \cup DOMAIN ColumnDefault
                                                   \cup DOMAIN ResponseDefault |->
        IF f = "kind" THEN "profile" ELSE Attribute(user, f)]

\* GET /user/profile
get_profile(cred) ==
    LET a == get_current_user_id(cred)
        req == [kind |-> "profile"]
    IN
    IF a.status # 200 THEN Refuse("get_profile", a.status, NoUser, cred, req)
    ELSE IF a.uid \notin UserRowIds THEN Refuse("get_profile", 404, a.uid, cred, req)
    ELSE \E user \in {u \in users : u.id = a.uid} :
           /\ resp' = Resp("get_profile", 200, a.uid, cred, req, UserProfileResponse(user))
           /\ UNCHANGED db

\* setattr(user, field, value): only an attribute that is a mapped column
\* reaches the row; any other becomes a plain attribute of the loaded object
StoredFields(payload) == DOMAIN payload \cap UserColumns

\* an explicit null for display_name, which is NOT NULL
NullProfileFields(payload) == {f \in DOMAIN payload \cap {"display_name"} : payload[f] = None}

\* PUT /user/profile
update_profile(cred, payload) ==
    LET a == get_current_user_id(cred)
        req == [kind |-> "update_profile", payload |-> payload]
    IN
    IF a.status # 200 THEN Refuse("update_profile", a.status, NoUser, cred, req)
    ELSE IF a.uid \notin UserRowIds THEN Refuse("update_profile", 404, a.uid, cred, req)
    ELSE IF NullProfileFields(payload) # {}
    THEN \* IntegrityError at flush
         Refuse("update_profile", 500, a.uid, cred, req)
    ELSE \E user \in {u \in users : u.id = a.uid} :
           LET row == [f \in DOMAIN user \cup StoredFields(payload) |->
                          IF f \in StoredFields(payload) THEN payload[f] ELSE user[f]]
               loaded == [f \in DOMAIN user \cup DOMAIN payload |->
                             IF f \in DOMAIN payload THEN payload[f] ELSE user[f]]
           IN
           /\ users' = (users \ {user}) \cup {row}
           /\ resp' = Resp("update_profile", 200, a.uid, cred, req, UserProfileResponse(loaded))
           /\ UNCHANGED <<meals, foods, water, weight, ids>>

\* ------------------------------------------------------- account deletion
MealIdsOf(uid) == {m.id : m \in {x \in meals : x.user_id = uid}}
FoodsOf(uid) == {f \in foods : f.meal_record_id \in MealIdsOf(uid)}

\* DELETE FROM meal_records WHERE user_id = uid, as one SQL statement: the
\* ORM relationship cascade is not run for it. With the foreign key of
\* detected_foods in place the statement fails when a child row references
\* one of the meals.
BulkDeleteMealsFails(uid) == fkEnforced /\ FoodsOf(uid) # {}

\* the body shared by DELETE /auth/account and DELETE /user/account
delete_account_body(op, cred) ==
    LET a == get_current_user_id(cred)
        req == [kind |-> "delete_account"]
    IN
    IF a.status # 200 THEN Refuse(op, a.status, NoUser, cred, req)
    ELSE IF BulkDeleteMealsFails(a.uid)
    THEN \* IntegrityError out of db.execute
         Refuse(op, 500, a.uid, cred, req)
    ELSE IF a.uid \notin UserRowIds
    THEN Refuse(op, 404, a.uid, cred, req)
    ELSE /\ water' = {w \in water : w.user_id # a.uid}
         /\ weight' = {w \in weight : w.user_id # a.uid}
         /\ meals' = {m \in meals : m.user_id # a.uid}
         /\ users' = {u \in users : u.id # a.uid}
         /\ UNCHANGED <<foods, ids>>
         /\ resp' = Resp(op, 204, a.uid, cred, req, NoBody)

\* DELETE /auth/account
auth_delete_account(cred) == delete_account_body("auth.delete_account", cred)
\* DELETE /user/account
user_delete_account(cred) == delete_account_body("user.delete_account", cred)

\* --------------------------------------------------------------- Meal API
\* the detected_foods rows of a meal
FoodsOfMeal(meal_id) == {f \in foods : f.meal_record_id = meal_id}

\* meals._meal_to_response
_meal_to_response(meal) ==
    [id |-> meal.id, meal_type |-> meal.meal_type,
     meal_time |-> _ensure_utc(meal.meal_time),
     total_calories |-> meal.total_calories,
     detected_foods |-> {f.name : f \in FoodsOfMeal(meal.id)}]

\* the food names a request of n detected foods carries
FoodNames(n) == {<<"food", i>> : i \in 1..n}

\* POST /meals
create_meal(cred, meal_type, meal_time, nutrition, n_foods) ==
    LET a == get_current_user_id(cred)
        req == [kind |-> "create_meal", meal_time |-> meal_time, n_foods |-> n_foods]
    IN
    IF a.status # 200 THEN Refuse("create_meal", a.status, NoUser, cred, req)
    ELSE
      /\ ids.meal < MaxMealRows
      /\ LET id == ids.meal + 1
             stored == IF meal_time.aware THEN StripTz(meal_time) ELSE meal_time
             row == [id |-> id, user_id |-> a.uid, meal_type |-> meal_type,
                     meal_time |-> stored,
                     total_calories |-> nutrition.total_calories,
                     protein_grams |-> nutrition.protein_grams,
                     carbs_grams |-> nutrition.carbs_grams,
                     fat_grams |-> nutrition.fat_grams,
                     fiber_grams |-> nutrition.fiber_grams]
             children == {[id |-> <<id, i>>, meal_record_id |-> id,
                           name |-> <<"food", i>>] : i \in 1..n_foods}
         IN /\ meals' = meals \cup {row}
            /\ foods' = foods \cup children
            /\ ids' = [ids EXCEPT !.meal = id]
            /\ resp' = Resp("create_meal", 201, a.uid, cred, req,
                            [kind |-> "meal", id |-> id, meal_type |-> meal_type,
                             meal_time |-> _ensure_utc(stored),
                             total_calories |-> nutrition.total_calories,
                             detected_foods |-> FoodNames(n_foods)])
      /\ UNCHANGED <<users, water, weight>>

MinutesPerDay == 24 * 60
\* the optional query parameter date: absent, or <<day number>>
NoDate == <<>>
\* datetime.combine(date, time.min) and datetime.combine(date, time.max), to the minute
DayStart(day) == day * MinutesPerDay
DayEnd(day) == day * MinutesPerDay + (MinutesPerDay - 1)
\* date.today() and datetime.now(timezone.utc).replace(hour=..): the day of an instant
DayOf(t) == t \div MinutesPerDay

\* a WHERE clause that stops short of the last minute of the day
MealsQueryOpenEnd(uid, day, tz_offset) ==
    {m \in meals :
        /\ m.user_id = uid
        /\ day # NoDate =>
             /\ m.meal_time.wall >= DayStart(day[1]) - tz_offset
             /\ m.meal_time.wall < DayEnd(day[1]) - tz_offset}

\* the WHERE clause of get_meals: the caller's rows, within the day when one is given
MealsQuery(uid, day, tz_offset) ==
    {m \in meals :
        /\ m.user_id = uid
        /\ day # NoDate =>
             /\ m.meal_time.wall >= DayStart(day[1]) - tz_offset
             /\ m.meal_time.wall <= DayEnd(day[1]) - tz_offset}

\* ORDER BY meal_time DESC: any order of the rows that is descending in
\* meal_time (rows of equal meal_time come in an order the database picks)
DescendingOrders(rows) ==
    {sq \in [1..Cardinality(rows) -> rows] :
        /\ \A i, j \in 1..Cardinality(rows) : i # j => sq[i] # sq[j]
        /\ \A i, j \in 1..Cardinality(rows) :
               i < j => sq[i].meal_time.wall >= sq[j].meal_time.wall}

\* GET /meals
get_meals(cred, day, tz_offset) ==
    LET a == get_current_user_id(cred)
        req == [kind |-> "get_meals", day |-> day, tz_offset |-> tz_offset]
    IN
    IF a.status # 200 THEN Refuse("get_meals", a.status, NoUser, cred, req)
    ELSE \E sq \in DescendingOrders(MealsQuery(a.uid, day, tz_offset)) :
           /\ resp' = Resp("get_meals", 200, a.uid, cred, req,
                           [kind |-> "meals",
                            items |-> [i \in DOMAIN sq |-> _meal_to_response(sq[i])]])
           /\ UNCHANGED db

\* the selection with the owner test left out
OwnedMealAnyOwner(meal_id, uid) == {m \in meals : m.id = meal_id}

\* the row update_meal and delete_meal select: id and owner must both match
OwnedMeal(meal_id, uid) == {m \in meals : m.id = meal_id /\ m.user_id = uid}

\* setattr over the whole body: a meal_type the payload does not carry is blanked
ApplyUpdateWholeBody(meal, payload) ==
    [f \in DOMAIN meal |->
        IF f \notin DOMAIN payload THEN (IF f = "meal_type" THEN "" ELSE meal[f])
        ELSE IF f = "meal_time" /\ payload[f].aware THEN StripTz(payload[f])
        ELSE payload[f]]

\* setattr over model_dump(exclude_unset=True): the fields the payload carries
ApplyUpdate(meal, payload) ==
    [f \in DOMAIN meal |->
        IF f \notin DOMAIN payload THEN meal[f]
        ELSE IF f = "meal_time" /\ payload[f].aware THEN StripTz(payload[f])
        ELSE payload[f]]

\* the fields a payload sets to null (in the bodies explored only a string
\* field is sent as null); every column a MealUpdate field names except
\* description_text and tags is NOT NULL
NullFields(payload) == {f \in DOMAIN payload \cap {"meal_type"} : payload[f] = None}

\* PUT /meals/{meal_id}
update_meal(cred, meal_id, payload) ==
    LET a == get_current_user_id(cred)
        req == [kind |-> "update_meal", meal_id |-> meal_id, payload |-> payload]
    IN
    IF a.status # 200 THEN Refuse("update_meal", a.status, NoUser, cred, req)
    ELSE IF meal_id = MalformedId THEN Refuse("update_meal", 400, a.uid, cred, req)
    ELSE IF OwnedMeal(meal_id, a.uid) = {} THEN Refuse("update_meal", 404, a.uid, cred, req)
    ELSE IF NullFields(payload) # {}
    THEN \* the flush violates NOT NULL: IntegrityError, the session rolls back
         Refuse("update_meal", 500, a.uid, cred, req)
    ELSE \E meal_record \in OwnedMeal(meal_id, a.uid) :
           LET row == ApplyUpdate(meal_record, payload) IN
           /\ meals' = (meals \ {meal_record}) \cup {row}
           /\ UNCHANGED <<users, foods, water, weight, ids>>
           /\ resp' = Resp("update_meal", 200, a.uid, cred, req,
                           [kind |-> "meal", id |-> row.id, meal_type |-> row.meal_type,
                            meal_time |-> _ensure_utc(row.meal_time),
                            total_calories |-> row.total_calories,
                            detected_foods |-> {f.name : f \in FoodsOfMeal(row.id)}])

\* DELETE /meals/{meal_id}: db.delete on the loaded row runs the relationship
\* cascade "all, delete-orphan", which deletes the children first
delete_meal(cred, meal_id) ==
    LET a == get_current_user_id(cred)
        req == [kind |-> "delete_meal", meal_id |-> meal_id]
    IN
    IF a.status # 200 THEN Refuse("delete_meal", a.status, NoUser, cred, req)
    ELSE IF meal_id = MalformedId THEN Refuse("delete_meal", 400, a.uid, cred, req)
    ELSE IF OwnedMeal(meal_id, a.uid) = {} THEN Refuse("delete_meal", 404, a.uid, cred, req)
    ELSE \E meal_record \in OwnedMeal(meal_id, a.uid) :
           /\ meals' = meals \ {meal_record}
           /\ foods' = foods \ FoodsOfMeal(meal_record.id)
           /\ UNCHANGED <<users, water, weight, ids>>
           /\ resp' = Resp("delete_meal", 204, a.uid, cred, req, NoBody)

\* -------------------------------------------------------- Water and weight
\* a primary key for the k-th row added to a table by one request: the k-th
\* natural number that is the key of no row of the table
RECURSIVE NewRowId(_, _)
NewRowId(rows, k) ==
    LET free == CHOOSE n \in 1..(Cardinality(rows) + 1) : n \notin {r.id : r \in rows} IN
    IF k <= 1 THEN free
    ELSE NewRowId(rows \cup {[id |-> free]}, k - 1)

\* POST /water
log_water(cred, amount_ml) ==
    LET a == get_current_user_id(cred)
        req == [kind |-> "log_water", amount_ml |-> amount_ml]
    IN
    IF a.status # 200 THEN Refuse("log_water", a.status, NoUser, cred, req)
    ELSE /\ Cardinality(water) < MaxWaterRows
         /\ LET id == NewRowId(water, 1) IN
            /\ water' = water \cup {[id |-> id, user_id |-> a.uid, amount_ml |-> amount_ml,
                                     recorded_at |-> Naive(now)]}
            /\ resp' = Resp("log_water", 201, a.uid, cred, req,
                            [kind |-> "water", id |-> id, amount_ml |-> amount_ml])
         /\ UNCHANGED <<users, meals, foods, weight, ids>>

\* the columns of the WeightLog entity and the fields WeightLogResponse requires
WeightLogColumns == {"id", "user_id", "weight_kg", "recorded_at", "created_at"}
WeightLogResponseFields == {"id", "weight_kg", "recorded_at", "created_at", "updated_at"}

\* POST /user/weight: the row is added and flushed, then
\* WeightLogResponse.model_validate(weight_log) is built from its attributes
log_weight(cred, weight_kg, recorded_at) ==
    LET a == get_current_user_id(cred)
        req == [kind |-> "log_weight", weight_kg |-> weight_kg, recorded_at |-> recorded_at]
    IN
    IF a.status # 200 THEN Refuse("log_weight", a.status, NoUser, cred, req)
    ELSE IF recorded_at.aware /\ driverStrict
    THEN \* DataError at flush: tz-aware value for a naive DateTime column
         Refuse("log_weight", 500, a.uid, cred, req)
    ELSE IF ~(WeightLogResponseFields \subseteq WeightLogColumns)
    THEN \* ValidationError: a required field is no attribute of the row
         Refuse("log_weight", 500, a.uid, cred, req)
    ELSE /\ Cardinality(weight) < MaxWeightRows
         /\ LET id == NewRowId(weight, 1) IN
            /\ weight' = weight \cup {[id |-> id, user_id |-> a.uid, weight_kg |-> weight_kg]}
            /\ resp' = Resp("log_weight", 201, a.uid, cred, req,
                            [kind |-> "weight", id |-> id, weight_kg |-> weight_kg])
         /\ UNCHANGED <<users, meals, foods, water, ids>>

\* ------------------------------------------------------------------ Demo
\* the three demo meals: type, minute of today (08:00, 12:30, 18:00), kcal, foods
DemoMeals ==
    << [meal_type |-> "breakfast", at |-> 8 * 60, total_calories |-> 350,
        protein_grams |-> 12, carbs_grams |-> 38, fat_grams |-> 18, fiber_grams |-> 6,
        names |-> <<"Avocado Toast">>],
       [meal_type |-> "lunch", at |-> 12 * 60 + 30, total_calories |-> 520,
        protein_grams |-> 42, carbs_grams |-> 15, fat_grams |-> 32, fiber_grams |-> 4,
        names |-> <<"Grilled Salmon", "Asparagus">>],
       [meal_type |-> "snack", at |-> 18 * 60, total_calories |-> 210,
        protein_grams |-> 8, carbs_grams |-> 35, fat_grams |-> 5, fiber_grams |-> 4,
        names |-> <<"Berry Smoothie">>] >>
\* the minute of today (UTC) at which each demo water log is recorded
DemoWaterAt == <<8 * 60, 12 * 60 + 30, 18 * 60>>
DemoWaterMl == <<250, 500, 500>>
DemoWeightKg == 68

\* the number of detected foods of the demo meals before the i-th
RECURSIVE DemoFoodsBefore(_)
DemoFoodsBefore(i) ==
    IF i <= 1 THEN 0 ELSE DemoFoodsBefore(i - 1) + Len(DemoMeals[i - 1].names)
DemoFoodCount == DemoFoodsBefore(Len(DemoMeals) + 1)

\* POST /demo/seed
seed_demo_data(cred) ==
    LET a == get_current_user_id(cred)
        req == [kind |-> "seed"]
        existing_meals == Cardinality({m \in meals : m.user_id = a.uid})
    IN
    IF a.status # 200 THEN Refuse("seed_demo_data", a.status, NoUser, cred, req)
    ELSE IF existing_meals > 0
    THEN /\ resp' = Resp("seed_demo_data", 200, a.uid, cred, req,
                         [kind |-> "seed", seeded |-> FALSE, meals |-> existing_meals])
         /\ UNCHANGED db
    ELSE IF driverStrict
    THEN \* meal_time is datetime.now(timezone.utc).replace(...), tz-aware: DataError
         \* at the first flush
         Refuse("seed_demo_data", 500, a.uid, cred, req)
    ELSE /\ ids.meal <= MaxMealRows
         /\ meals' = meals \cup
               {[id |-> ids.meal + i, user_id |-> a.uid,
                 meal_type |-> DemoMeals[i].meal_type,
                 meal_time |-> Naive(DayStart(DayOf(now)) + DemoMeals[i].at),
                 total_calories |-> DemoMeals[i].total_calories,
                 protein_grams |-> DemoMeals[i].protein_grams,
                 carbs_grams |-> DemoMeals[i].carbs_grams,
                 fat_grams |-> DemoMeals[i].fat_grams,
                 fiber_grams |-> DemoMeals[i].fiber_grams] : i \in DOMAIN DemoMeals}
         /\ foods' = foods \cup
               {[id |-> <<ids.meal + i, k>>,
                 meal_record_id |-> ids.meal + i,
                 name |-> DemoMeals[i].names[k]] :
                    <<i, k>> \in {p \in (DOMAIN DemoMeals) \X (1..DemoFoodCount) :
                                     p[2] <= Len(DemoMeals[p[1]].names)}}
         /\ water' = water \cup
               {[id |-> NewRowId(water, i), user_id |-> a.uid, amount_ml |-> DemoWaterMl[i],
                 recorded_at |-> Naive(DayStart(DayOf(now)) + DemoWaterAt[i])] :
                    i \in DOMAIN DemoWaterMl}
         /\ weight' = weight \cup
               {[id |-> NewRowId(weight, 1), user_id |-> a.uid, weight_kg |-> DemoWeightKg]}
         /\ ids' = [ids EXCEPT !.meal = @ + Len(DemoMeals)]
         /\ UNCHANGED users
         /\ resp' = Resp("seed_demo_data", 200, a.uid, cred, req,
                         [kind |-> "seed", seeded |-> TRUE, meals |-> Len(DemoMeals)])

\* ------------------------------------------------------- AI vision service
\* the fields class Settings declares (extra = "ignore": nothing else is ever set)
SettingsFields ==
    {"app_name", "debug", "api_v1_prefix", "database_url", "redis_url",
     "jwt_secret_key", "jwt_algorithm", "access_token_expire_minutes",
     "anthropic_base_url", "anthropic_model", "anthropic_enabled",
     "storage_provider", "minio_endpoint", "minio_access_key", "minio_secret_key",
     "minio_bucket", "minio_secure", "storage_public_url",
     "oss_endpoint", "oss_bucket", "oss_access_key", "oss_secret_key", "log_level"}

\* the provider chain of analyze_food_image, in call order
Providers == <<"anthropic", "agent_maestro", "gemini", "openai">>
\* the setting each provider function tests before it contacts its service
GuardSetting(p) ==
    CASE p = "anthropic" -> "anthropic_enabled"
      [] p = "agent_maestro" -> "agent_maestro_enabled"
      [] p = "gemini" -> "gemini_api_key"
      [] p = "openai" -> "openai_api_key"

\* _get_mock_analysis, and a payload a provider returns
MockAnalysis ==
    [detected_foods |-> << [name |-> "Rice", calories |-> 200],
                           [name |-> "Stir-fried Vegetables", calories |-> 80],
                           [name |-> "Braised Pork", calories |-> 320] >>,
     total_calories |-> 600,
     tags |-> <<"balanced", "chinese-cuisine", "home-cooked">>]
ProviderPayload(p) ==
    [detected_foods |-> << [name |-> "Grilled Chicken", calories |-> 250] >>,
     total_calories |-> 250,
     tags |-> <<"high-protein", p>>]

\* _parse_ai_response: the raw dict as an AnalysisResponse (image_url is left empty)
_parse_ai_response(raw) ==
    [image_url |-> "", total_calories |-> raw.total_calories,
     detected_foods |-> raw.detected_foods, tags |-> raw.tags]

\* The chain from provider i on. cfg gives the truth value of each declared
\* setting, world what each external service would answer ("payload" or
\* "fail"). Reading a setting that Settings does not declare raises
\* AttributeError, outside every try block.
RECURSIVE ProviderChain(_, _, _, _)
ProviderChain(i, cfg, world, attempts) ==
    IF i > Len(Providers)
    THEN [raised |-> FALSE, attempts |-> attempts, source |-> "mock", raw |-> MockAnalysis]
    ELSE LET p == Providers[i] IN
         IF GuardSetting(p) \notin SettingsFields
         THEN [raised |-> TRUE, attempts |-> attempts, source |-> "AttributeError",
               raw |-> MockAnalysis]
         ELSE IF ~cfg[GuardSetting(p)]
         THEN ProviderChain(i + 1, cfg, world, attempts)
         ELSE IF world[p] = "payload"
         THEN [raised |-> FALSE, attempts |-> Append(attempts, p), source |-> p,
               raw |-> ProviderPayload(p)]
         ELSE ProviderChain(i + 1, cfg, world, Append(attempts, p))

\* the settings analyze_food_image logs before it tries any provider
LoggedSettings ==
    <<"anthropic_enabled", "agent_maestro_enabled", "gemini_api_key", "openai_api_key">>

\* what a call that returned nothing leaves the caller with
NoAnalysis == [image_url |-> "", total_calories |-> 0, detected_foods |-> <<>>, tags |-> <<>>]

\* ai_service.analyze_food_image: [raised, attempts, source, analysis]
analyze_food_image(cfg, world) ==
    IF \E i \in DOMAIN LoggedSettings : LoggedSettings[i] \notin SettingsFields
    THEN [raised |-> TRUE, attempts |-> <<>>, source |-> "AttributeError",
          analysis |-> NoAnalysis]
    ELSE LET r == ProviderChain(1, cfg, world, <<>>) IN
         [raised |-> r.raised, attempts |-> r.attempts, source |-> r.source,
          analysis |-> IF r.raised THEN NoAnalysis ELSE _parse_ai_response(r.raw)]

\* --------------------------------------------------------------- Food API
AllowedContentTypes == {"image/jpeg", "image/png", "image/webp"}
\* the size test with the limit itself refused
TooLargeInclusive(size) == size >= MaxImageBytes

\* len(image_data) > 10 * 1024 * 1024
TooLarge(size) == size > MaxImageBytes

\* POST /food/analyze. The handler declares no CurrentUserId dependency: the
\* Authorization header of the request is not read.
analyze_food(cred, content_type, size, cfg, world) ==
    LET req == [kind |-> "analyze", content_type |-> content_type, size |-> size,
                cfg |-> cfg, world |-> world]
        Answer(status, invoked, r) ==
            /\ resp' = Resp("analyze_food", status, NoUser, cred, req,
                            [kind |-> "analysis", ai_invoked |-> invoked, result |-> r])
            /\ UNCHANGED db
        r == analyze_food_image(cfg, world)
        none == [raised |-> FALSE, attempts |-> <<>>, source |-> "none",
                 analysis |-> NoAnalysis]
    IN
    IF content_type \notin AllowedContentTypes THEN Answer(400, FALSE, none)
    ELSE IF TooLarge(size) THEN Answer(400, FALSE, none)
    ELSE IF r.raised THEN Answer(500, TRUE, r)
    ELSE Answer(200, TRUE, r)

\* ------------------------------------------------------------ Demo routing
\* the routers api_router includes; main.py mounts api_router and nothing else
MountedRouters == {"auth", "food", "meals", "stats", "user", "water"}

\* POST /demo/seed as a client sends it: the handler runs only when its router
\* is mounted, otherwise the framework answers 404 before any dependency runs
post_demo_seed(cred) ==
    IF "demo" \in MountedRouters THEN seed_demo_data(cred)
    ELSE Refuse("seed_demo_data", 404, NoUser, cred, [kind |-> "seed"])

\* ------------------------------------------------------------ Statistics
\* SUM(column) over the selected rows
RECURSIVE SumOver(_, _)
SumOver(rows, field) ==
    IF rows = {} THEN 0
    ELSE LET r == CHOOSE x \in rows : TRUE IN r[field] + SumOver(rows \ {r}, field)

\* a date query parameter that date.fromisoformat rejects
BadDate == <<"2024", "13", "45">>
\* the date a str | None parameter stands for: today when it is absent, empty
\* or unparsable
TargetDate(param) == IF Len(param) = 1 THEN param[1] ELSE DayOf(now)

\* stats._get_daily_stats (tz_offset in minutes)
_get_daily_stats(user_id, target_date, tz_offset) ==
    LET day_start == DayStart(target_date) - tz_offset
        day_end == DayEnd(target_date) - tz_offset
        meal_rows == {m \in meals : /\ m.user_id = user_id
                                    /\ m.meal_time.wall >= day_start
                                    /\ m.meal_time.wall <= day_end}
        water_rows == {w \in water : /\ w.user_id = user_id
                                     /\ w.recorded_at.wall >= day_start
                                     /\ w.recorded_at.wall <= day_end}
    IN [date |-> target_date,
        total_calories |-> SumOver(meal_rows, "total_calories"),
        protein_grams |-> SumOver(meal_rows, "protein_grams"),
        carbs_grams |-> SumOver(meal_rows, "carbs_grams"),
        fat_grams |-> SumOver(meal_rows, "fat_grams"),
        fiber_grams |-> SumOver(meal_rows, "fiber_grams"),
        meal_count |-> Cardinality(meal_rows),
        water_ml |-> SumOver(water_rows, "amount_ml")]

\* GET /stats/daily
get_daily_stats(cred, date, tz_offset) ==
    LET a == get_current_user_id(cred)
        req == [kind |-> "daily", date |-> date, tz_offset |-> tz_offset]
    IN
    IF a.status # 200 THEN Refuse("get_daily_stats", a.status, NoUser, cred, req)
    ELSE /\ resp' = Resp("get_daily_stats", 200, a.uid, cred, req,
                         _get_daily_stats(a.uid, TargetDate(date), tz_offset))
         /\ UNCHANGED db

\* date.weekday(): 0 for Monday; day 0 of the clock is a Monday
Weekday(day) == day % 7
\* the Monday a week parameter stands for when it is absent or unparsable
WeekStart(param) ==
    IF Len(param) = 1 THEN param[1] ELSE DayOf(now) - Weekday(DayOf(now))

\* round(total / n, 1) for integers total >= 0 and n > 0, in tenths: Python
\* rounds the quotient to the nearest tenth and an exact tie to the even one
Round1(total, n) ==
    LET q == (10 * total) \div n
        r == (10 * total) % n
    IN IF 2 * r < n THEN q
       ELSE IF 2 * r > n THEN q + 1
       ELSE IF q % 2 = 0 THEN q ELSE q + 1

\* sum(d.field for d in daily_stats)
RECURSIVE SumSeq(_, _)
SumSeq(sq, field) ==
    IF sq = <<>> THEN 0 ELSE sq[1][field] + SumSeq(Tail(sq), field)

\* the divisor taken over the whole list, days without meals included
NumDaysWholeWindow(daily_stats) == Len(daily_stats)

\* num_days = len(days_with_data) if days_with_data else 1
NumDays(daily_stats) ==
    LET days_with_data == {i \in DOMAIN daily_stats : daily_stats[i].meal_count > 0}
    IN IF days_with_data # {} THEN Cardinality(days_with_data) ELSE 1

\* GET /stats/weekly; the four averages are given in tenths
get_weekly_stats(cred, week, tz_offset) ==
    LET a == get_current_user_id(cred)
        req == [kind |-> "weekly", week |-> week, tz_offset |-> tz_offset]
    IN
    IF a.status # 200 THEN Refuse("get_weekly_stats", a.status, NoUser, cred, req)
    ELSE LET week_start == WeekStart(week)
             daily_stats == [i \in 1..7 |->
                                _get_daily_stats(a.uid, week_start + (i - 1), tz_offset)]
             num_days == NumDays(daily_stats)
         IN /\ resp' = Resp("get_weekly_stats", 200, a.uid, cred, req,
                            [kind |-> "weekly",
                             week_start |-> week_start, week_end |-> week_start + 6,
                             avg_calories |-> Round1(SumSeq(daily_stats, "total_calories"), num_days),
                             avg_protein |-> Round1(SumSeq(daily_stats, "protein_grams"), num_days),
                             avg_carbs |-> Round1(SumSeq(daily_stats, "carbs_grams"), num_days),
                             avg_fat |-> Round1(SumSeq(daily_stats, "fat_grams"), num_days),
                             total_meals |-> SumSeq(daily_stats, "meal_count"),
                             daily_stats |-> daily_stats])
            /\ UNCHANGED db

\* The calendar: day 0 is Monday 2024-01-01; month 0 is January 2024 (31 days),
\* month 1 February 2024 (29 days); calendar.monthrange gives the lengths.
MonthLengths == <<31, 29>>
Months == 0..(Len(MonthLengths) - 1)
RECURSIVE MonthFirstDay(_)
MonthFirstDay(mon) == IF mon = 0 THEN 0 ELSE MonthFirstDay(mon - 1) + MonthLengths[mon]
MonthOf(day) == CHOOSE mon \in Months :
                   MonthFirstDay(mon) <= day /\ day < MonthFirstDay(mon) + MonthLengths[mon + 1]
\* a month parameter whose parts are integers but name no month ("2024-13"):
\* int() accepts it and calendar.monthrange raises outside the try block
MonthOutOfRange == <<"2024", "13">>
\* the month a parameter stands for: the current one when it is absent or when
\* split/int fail
TargetMonth(param) == IF Len(param) = 1 THEN param[1] ELSE MonthOf(DayOf(now))

\* the last day the loop would reach if it never stopped at today
LastDayQueriedWholeMonth(mon) == MonthFirstDay(mon) + MonthLengths[mon + 1] - 1

\* the last day the loop of get_monthly_stats queries: it breaks at the first
\* day after date.today()
LastDayQueried(mon) ==
    LET last == MonthFirstDay(mon) + MonthLengths[mon + 1] - 1
    IN IF last <= DayOf(now) THEN last ELSE DayOf(now)

\* the streak loop over daily_stats from index i on
RECURSIVE MaxStreak(_, _, _, _)
MaxStreak(daily_stats, i, current_streak, max_streak) ==
    IF i > Len(daily_stats) THEN max_streak
    ELSE IF daily_stats[i].meal_count > 0
    THEN MaxStreak(daily_stats, i + 1, current_streak + 1,
                   IF current_streak + 1 > max_streak THEN current_streak + 1 ELSE max_streak)
    ELSE MaxStreak(daily_stats, i + 1, 0, max_streak)

\* GET /stats/monthly; the four averages are given in tenths
get_monthly_stats(cred, month, tz_offset) ==
    LET a == get_current_user_id(cred)
        req == [kind |-> "monthly", month |-> month, tz_offset |-> tz_offset]
    IN
    IF a.status # 200 THEN Refuse("get_monthly_stats", a.status, NoUser, cred, req)
    ELSE IF month = MonthOutOfRange THEN Refuse("get_monthly_stats", 500, a.uid, cred, req)
    ELSE LET mon == TargetMonth(month)
             first == MonthFirstDay(mon)
             daily_stats == [i \in 1..(LastDayQueried(mon) - first + 1) |->
                                _get_daily_stats(a.uid, first + (i - 1), tz_offset)]
             num_days == NumDays(daily_stats)
         IN /\ resp' = Resp("get_monthly_stats", 200, a.uid, cred, req,
                            [kind |-> "monthly", month |-> mon,
                             avg_calories |-> Round1(SumSeq(daily_stats, "total_calories"), num_days),
                             avg_protein |-> Round1(SumSeq(daily_stats, "protein_grams"), num_days),
                             avg_carbs |-> Round1(SumSeq(daily_stats, "carbs_grams"), num_days),
                             avg_fat |-> Round1(SumSeq(daily_stats, "fat_grams"), num_days),
                             total_meals |-> SumSeq(daily_stats, "meal_count"),
                             streak_days |-> MaxStreak(daily_stats, 1, 0, 0),
                             daily_stats |-> daily_stats])
            /\ UNCHANGED db

\* ----------------------------------------------------------------- Insights
\* the tips of the seven rules, in the order the rules are evaluated
ConditionalTipOrder ==
    <<"more protein", "more water", "less fat", "fewer carbs", "log every day",
      "calories low", "calories high">>
EncouragementTips == <<"keep up the great work", "a balanced diet">>

\* tips returned whole
KeepAllTips(tips) == tips

\* tips[:5]
KeepTips(tips) == SubSeq(tips, 1, IF Len(tips) < 5 THEN Len(tips) ELSE 5)

\* the tips of the rules that hold for days_with_data: an average sum/n is
\* compared with a threshold t as sum against t * n
ConditionalTips(days_with_data) ==
    LET n == Len(days_with_data)
        calories == SumSeq(days_with_data, "total_calories")
        protein == SumSeq(days_with_data, "protein_grams")
        carbs == SumSeq(days_with_data, "carbs_grams")
        fat == SumSeq(days_with_data, "fat_grams")
        water_ml == SumSeq(days_with_data, "water_ml")
        holds == <<protein < 50 * n, water_ml < 1500 * n, fat > 75 * n, carbs > 300 * n,
                   n < 5, calories < 1200 * n, calories > 2500 * n>>
    IN SelectSeq([i \in 1..7 |-> IF holds[i] THEN ConditionalTipOrder[i] ELSE ""],
                 LAMBDA tip : tip # "")

\* GET /stats/insights (the insight text and the calorie trend are left out of
\* the body)
get_insights(cred, tz_offset) ==
    LET a == get_current_user_id(cred)
        req == [kind |-> "insights", tz_offset |-> tz_offset]
    IN
    IF a.status # 200 THEN Refuse("get_insights", a.status, NoUser, cred, req)
    ELSE LET today == DayOf(now)
             recent_stats == [i \in 1..7 |-> _get_daily_stats(a.uid, today - (i - 1), tz_offset)]
             days_with_data == SelectSeq(recent_stats, LAMBDA d : d.meal_count > 0)
             conditional == ConditionalTips(days_with_data)
             tips == IF Len(conditional) < 2 THEN conditional \o EncouragementTips
                     ELSE conditional
             protein == SumSeq(days_with_data, "protein_grams")
         IN /\ resp' = Resp("get_insights", 200, a.uid, cred, req,
                  IF days_with_data = <<>>
                  THEN [kind |-> "insights",
                        tips |-> <<"log every meal", "use the food scanner", "set daily goals">>,
                        protein_adequacy |-> "adequate"]
                  ELSE [kind |-> "insights", tips |-> KeepTips(tips),
                        protein_adequacy |->
                            IF protein < 40 * Len(days_with_data) THEN "low"
                            ELSE IF protein > 80 * Len(days_with_data) THEN "high"
                            ELSE "adequate"])
            /\ UNCHANGED db

\* ------------------------------------------------------------- Achievements
\* the achievements list of get_achievements: id, the count it reads, target
AchievementCatalog ==
    << [id |-> "first_meal", of |-> "meals", target |-> 1],
       [id |-> "meals_10", of |-> "meals", target |-> 10],
       [id |-> "meals_50", of |-> "meals", target |-> 50],
       [id |-> "meals_100", of |-> "meals", target |-> 100],
       [id |-> "days_7", of |-> "days", target |-> 7],
       [id |-> "days_30", of |-> "days", target |-> 30],
       [id |-> "hydration_start", of |-> "water", target |-> 1],
       [id |-> "hydration_50", of |-> "water", target |-> 50] >>

\* unlocked only past the target
UnlockedPastTarget(count, target) == count > target

\* "unlocked": count >= target
Unlocked(count, target) == count >= target

\* GET /user/achievements
get_achievements(cred) ==
    LET a == get_current_user_id(cred)
        req == [kind |-> "achievements"]
    IN
    IF a.status # 200 THEN Refuse("get_achievements", a.status, NoUser, cred, req)
    ELSE LET mine == {m \in meals : m.user_id = a.uid}
             count == [meals |-> Cardinality(mine),
                       days |-> Cardinality({DayOf(m.meal_time.wall) : m \in mine}),
                       water |-> Cardinality({w \in water : w.user_id = a.uid})]
         IN /\ resp' = Resp("get_achievements", 200, a.uid, cred, req,
                  [kind |-> "achievements",
                   items |-> [i \in DOMAIN AchievementCatalog |->
                       LET e == AchievementCatalog[i] IN
                       [id |-> e.id,
                        unlocked |-> Unlocked(count[e.of], e.target),
                        progress |-> IF count[e.of] < e.target THEN count[e.of] ELSE e.target,
                        target |-> e.target]]])
            /\ UNCHANGED db

\* ------------------------------------------------------------------ Streaks
\* ORDER BY date(meal_time) DESC over the distinct dates
RECURSIVE DescendingSeq(_)
DescendingSeq(days) ==
    IF days = {} THEN <<>>
    ELSE LET top == CHOOSE d \in days : \A e \in days : e <= d
         IN <<top>> \o DescendingSeq(days \ {top})

\* a streak that counts only when the newest date is today
StreakIsLiveTodayOnly(newest, today) == newest = today

\* dates[0] == today or dates[0] == today - timedelta(days=1)
StreakIsLive(newest, today) == newest = today \/ newest = today - 1

\* the loop of the current streak, from index i (1-based; dates[1] is the newest)
RECURSIVE CurrentStreakFrom(_, _, _)
CurrentStreakFrom(dates, i, current_streak) ==
    IF i > Len(dates) THEN current_streak
    ELSE IF dates[i] = dates[1] - (i - 1)
    THEN CurrentStreakFrom(dates, i + 1, current_streak + 1)
    ELSE current_streak

\* a longest streak that stops counting at the first gap
RECURSIVE LongestStreakFirstRun(_, _, _, _)
LongestStreakFirstRun(sorted_dates, i, current_run, longest_streak) ==
    IF i > Len(sorted_dates) THEN longest_streak
    ELSE IF sorted_dates[i] = sorted_dates[i - 1] + 1
    THEN LongestStreakFirstRun(sorted_dates, i + 1, current_run + 1,
                               IF current_run + 1 > longest_streak THEN current_run + 1
                               ELSE longest_streak)
    ELSE longest_streak

\* the loop of the longest streak over sorted_dates, from index i
RECURSIVE LongestStreakFrom(_, _, _, _)
LongestStreakFrom(sorted_dates, i, current_run, longest_streak) ==
    IF i > Len(sorted_dates) THEN longest_streak
    ELSE IF sorted_dates[i] = sorted_dates[i - 1] + 1
    THEN LongestStreakFrom(sorted_dates, i + 1, current_run + 1,
                           IF current_run + 1 > longest_streak THEN current_run + 1
                           ELSE longest_streak)
    ELSE LongestStreakFrom(sorted_dates, i + 1, 1, longest_streak)

\* GET /user/streaks
get_streaks(cred) ==
    LET a == get_current_user_id(cred)
        req == [kind |-> "streaks"]
    IN
    IF a.status # 200 THEN Refuse("get_streaks", a.status, NoUser, cred, req)
    ELSE LET dates == DescendingSeq({DayOf(m.meal_time.wall) :
                                         m \in {x \in meals : x.user_id = a.uid}})
             sorted_dates == [i \in 1..Len(dates) |-> dates[Len(dates) + 1 - i]]
             today == DayOf(now)
         IN /\ resp' = Resp("get_streaks", 200, a.uid, cred, req,
                  IF dates = <<>>
                  THEN [kind |-> "streaks", current_streak |-> 0, longest_streak |-> 0,
                        total_days_logged |-> 0]
                  ELSE [kind |-> "streaks",
                        current_streak |->
                            IF StreakIsLive(dates[1], today)
                            THEN CurrentStreakFrom(dates, 2, 1) ELSE 0,
                        longest_streak |->
                            LongestStreakFrom(sorted_dates, 2, 1, 1),
                        total_days_logged |-> Len(dates)])
            /\ UNCHANGED db

\* ------------------------------------------------------------ Food search
\* strings are sequences of Unicode code points
\* _LOCAL_FOOD_DB, in table order (the English name of each row is in the comment)
_LOCAL_FOOD_DB == <<
    \* Rice
    [name |-> <<82, 105, 99, 101>>,
     name_zh |-> <<31859, 39277>>, calories_per_100g |-> 130],
    \* Noodles
    [name |-> <<78, 111, 111, 100, 108, 101, 115>>,
     name_zh |-> <<38754, 26465>>, calories_per_100g |-> 138],
    \* Steamed Bun
    [name |-> <<83, 116, 101, 97, 109, 101, 100, 32, 66, 117, 110>>,
     name_zh |-> <<39314, 22836>>, calories_per_100g |-> 221],
    \* Dumpling
    [name |-> <<68, 117, 109, 112, 108, 105, 110, 103>>,
     name_zh |-> <<39290, 23376>>, calories_per_100g |-> 240],
    \* Fried Rice
    [name |-> <<70, 114, 105, 101, 100, 32, 82, 105, 99, 101>>,
     name_zh |-> <<28818, 39277>>, calories_per_100g |-> 186],
    \* Congee
    [name |-> <<67, 111, 110, 103, 101, 101>>,
     name_zh |-> <<31909>>, calories_per_100g |-> 46],
    \* Tofu
    [name |-> <<84, 111, 102, 117>>,
     name_zh |-> <<35910, 33104>>, calories_per_100g |-> 76],
    \* Chicken Breast
    [name |-> <<67, 104, 105, 99, 107, 101, 110, 32, 66, 114, 101, 97, 115, 116>>,
     name_zh |-> <<40481, 33016, 32905>>, calories_per_100g |-> 165],
    \* Pork Belly
    [name |-> <<80, 111, 114, 107, 32, 66, 101, 108, 108, 121>>,
     name_zh |-> <<20116, 33457, 32905>>, calories_per_100g |-> 518],
    \* Beef
    [name |-> <<66, 101, 101, 102>>,
     name_zh |-> <<29275, 32905>>, calories_per_100g |-> 250],
    \* Salmon
    [name |-> <<83, 97, 108, 109, 111, 110>>,
     name_zh |-> <<19977, 25991, 40060>>, calories_per_100g |-> 208],
    \* Shrimp
    [name |-> <<83, 104, 114, 105, 109, 112>>,
     name_zh |-> <<34430>>, calories_per_100g |-> 99],
    \* Egg
    [name |-> <<69, 103, 103>>,
     name_zh |-> <<40481, 34507>>, calories_per_100g |-> 155],
    \* Milk
    [name |-> <<77, 105, 108, 107>>,
     name_zh |-> <<29275, 22902>>, calories_per_100g |-> 42],
    \* Yogurt
    [name |-> <<89, 111, 103, 117, 114, 116>>,
     name_zh |-> <<37240, 22902>>, calories_per_100g |-> 59],
    \* Broccoli
    [name |-> <<66, 114, 111, 99, 99, 111, 108, 105>>,
     name_zh |-> <<35199, 20848, 33457>>, calories_per_100g |-> 34],
    \* Spinach
    [name |-> <<83, 112, 105, 110, 97, 99, 104>>,
     name_zh |-> <<33760, 33756>>, calories_per_100g |-> 23],
    \* Tomato
    [name |-> <<84, 111, 109, 97, 116, 111>>,
     name_zh |-> <<30058, 33540>>, calories_per_100g |-> 18],
    \* Potato
    [name |-> <<80, 111, 116, 97, 116, 111>>,
     name_zh |-> <<22303, 35910>>, calories_per_100g |-> 77],
    \* Sweet Potato
    [name |-> <<83, 119, 101, 101, 116, 32, 80, 111, 116, 97, 116, 111>>,
     name_zh |-> <<32418, 34223>>, calories_per_100g |-> 86],
    \* Apple
    [name |-> <<65, 112, 112, 108, 101>>,
     name_zh |-> <<33529, 26524>>, calories_per_100g |-> 52],
    \* Banana
    [name |-> <<66, 97, 110, 97, 110, 97>>,
     name_zh |-> <<39321, 34121>>, calories_per_100g |-> 89],
    \* Orange
    [name |-> <<79, 114, 97, 110, 103, 101>>,
     name_zh |-> <<27225, 23376>>, calories_per_100g |-> 47],
    \* Bread
    [name |-> <<66, 114, 101, 97, 100>>,
     name_zh |-> <<38754, 21253>>, calories_per_100g |-> 265],
    \* Pizza
    [name |-> <<80, 105, 122, 122, 97>>,
     name_zh |-> <<25259, 33832>>, calories_per_100g |-> 266],
    \* Hamburger
    [name |-> <<72, 97, 109, 98, 117, 114, 103, 101, 114>>,
     name_zh |-> <<27721, 22561>>, calories_per_100g |-> 295],
    \* Stir-fried Vegetables
    [name |-> <<83, 116, 105, 114, 45, 102, 114, 105, 101, 100, 32, 86, 101, 103, 101, 116, 97, 98, 108, 101, 115>>,
     name_zh |-> <<28818, 26102, 34092>>, calories_per_100g |-> 65],
    \* Hot and Sour Soup
    [name |-> <<72, 111, 116, 32, 97, 110, 100, 32, 83, 111, 117, 114, 32, 83, 111, 117, 112>>,
     name_zh |-> <<37240, 36771, 27748>>, calories_per_100g |-> 35],
    \* Mapo Tofu
    [name |-> <<77, 97, 112, 111, 32, 84, 111, 102, 117>>,
     name_zh |-> <<40635, 23110, 35910, 33104>>, calories_per_100g |-> 112],
    \* Kung Pao Chicken
    [name |-> <<75, 117, 110, 103, 32, 80, 97, 111, 32, 67, 104, 105, 99, 107, 101, 110>>,
     name_zh |-> <<23467, 20445, 40481, 19969>>, calories_per_100g |-> 180]
>>

\* str.lower() on the code points used here (A-Z)
Lower(s) == [i \in 1..Len(s) |-> IF s[i] \in 65..90 THEN s[i] + 32 ELSE s[i]]

\* str.strip(): leading and trailing blanks and tabs removed
RECURSIVE Strip(_)
Strip(s) ==
    IF s = <<>> THEN s
    ELSE IF s[1] \in {9, 32} THEN Strip(Tail(s))
    ELSE IF s[Len(s)] \in {9, 32} THEN Strip(SubSeq(s, 1, Len(s) - 1))
    ELSE s

\* needle in haystack
IsSubstring(needle, haystack) ==
    \E i \in 0..(Len(haystack) - Len(needle)) :
        SubSeq(haystack, i + 1, i + Len(needle)) = needle

\* the loop over the table from row i, with the results collected so far
RECURSIVE SearchFrom(_, _, _, _)
SearchFrom(i, results, query_lower, limit) ==
    IF i > Len(_LOCAL_FOOD_DB) THEN results
    ELSE IF \/ IsSubstring(query_lower, Lower(_LOCAL_FOOD_DB[i].name))
            \/ IsSubstring(query_lower, _LOCAL_FOOD_DB[i].name_zh)
    THEN LET food == _LOCAL_FOOD_DB[i]
             appended == Append(results,
                 [name |-> food.name, name_zh |-> food.name_zh,
                  calories_per_100g |-> food.calories_per_100g, source |-> "local"])
         IN IF Len(appended) >= limit THEN appended
            ELSE SearchFrom(i + 1, appended, query_lower, limit)
    ELSE SearchFrom(i + 1, results, query_lower, limit)

\* food_db_service.search_food(query, limit)
food_db_service_search_food(query, limit) ==
    IF query = <<>> \/ Strip(query) = <<>> THEN <<>>
    ELSE SearchFrom(1, <<>>, Strip(Lower(query)), limit)

\* GET /food/search?q=&limit=
search_food(q, limit) ==
    /\ resp' = Resp("search_food", 200, NoUser, NoHeader, [kind |-> "search", q |-> q, limit |-> limit],
                    [kind |-> "search", query |-> q,
                     results |-> IF Strip(q) = <<>> THEN <<>>
                                 ELSE food_db_service_search_food(q, limit)])
    /\ UNCHANGED db

\* --------------------------------------------------------- Apple key cache
APPLE_KEYS_CACHE_DURATION == 24 * 60

\* a cache that expires a minute early
CacheFreshMinuteShort(at) ==
    /\ _apple_keys_cache # <<>> /\ _apple_keys_fetched_at # <<>>
    /\ at - _apple_keys_fetched_at[1] < APPLE_KEYS_CACHE_DURATION - 1

\* the test of _get_apple_public_keys on the cache, at the instant `at`
CacheFresh(at) ==
    /\ _apple_keys_cache # <<>> /\ _apple_keys_fetched_at # <<>>
    /\ at - _apple_keys_fetched_at[1] < APPLE_KEYS_CACHE_DURATION

\* _get_apple_public_keys up to its first await: the call reads the clock and
\* either returns the cached set or suspends in client.get. call is the
\* identity of the coroutine.
_get_apple_public_keys(call) ==
    /\ \A c \in key_calls : c.call # call
    /\ IF CacheFresh(now)
       THEN /\ resp' = Resp("_get_apple_public_keys", 200, NoUser, NoHeader,
                            [kind |-> "keys", call |-> call, now |-> now],
                            [kind |-> "keys", keys |-> _apple_keys_cache[1], fetched |-> FALSE])
            /\ UNCHANGED key_calls
       ELSE /\ key_calls' = key_calls \cup {[call |-> call, now |-> now]}
            /\ UNCHANGED resp
    /\ UNCHANGED <<db, _apple_keys_cache, _apple_keys_fetched_at>>

\* _get_apple_public_keys from the return of client.get to its end. No await
\* lies between raise_for_status and the two assignments, so the event loop
\* runs them as one step. The key set is identified by the minute Apple
\* served it.
_get_apple_public_keys_resume(c, outcome) ==
    /\ c \in key_calls
    /\ key_calls' = key_calls \ {c}
    /\ IF outcome = "ok"
       THEN /\ _apple_keys_cache' = << [served_at |-> now] >>
            /\ _apple_keys_fetched_at' = <<c.now>>
            /\ resp' = Resp("_get_apple_public_keys", 200, NoUser, NoHeader,
                            [kind |-> "keys", call |-> c.call, now |-> c.now],
                            [kind |-> "keys", keys |-> [served_at |-> now], fetched |-> TRUE])
       ELSE \* the request or raise_for_status raised
            /\ resp' = Resp("_get_apple_public_keys", 500, NoUser, NoHeader,
                            [kind |-> "keys", call |-> c.call, now |-> c.now], NoBody)
            /\ UNCHANGED <<_apple_keys_cache, _apple_keys_fetched_at>>
    /\ UNCHANGED db

\* ---------------------------------------------------------- storage service
\* one call on the singleton, as the log keeps it: whether it raised and with
\* what, and whether it got as far as a request to the storage account
StorageCall(op, arg, outcome, contacted) ==
    [op |-> op, arg |-> arg, outcome |-> outcome, contacted |-> contacted]

\* StorageService.init: the argument of from_connection_string is evaluated
\* before the call, so reading a setting that Settings does not declare raises
\* AttributeError before self._client is assigned
storage_init(created) ==
    /\ IF "azure_storage_connection_string" \notin SettingsFields
       THEN /\ storage_calls' = Append(storage_calls,
                                       StorageCall("init", "", "AttributeError", FALSE))
            /\ UNCHANGED _client
       ELSE /\ _client' = <<"client">>
            \* create_container may raise (the container exists): swallowed
            /\ storage_calls' = Append(storage_calls, StorageCall("init", "", "ok", TRUE))
    /\ UNCHANGED <<db, blobs, resp>>

\* uuid4().hex: a name no earlier call has drawn
BlobNames == <<"b1", "b2", "b3", "b4">>

\* the extension upload_image gives the blob
Extension(content_type) ==
    CASE content_type = "image/png" -> "png"
      [] content_type = "image/webp" -> "webp"
      [] OTHER -> "jpg"

\* StorageService.upload_image; world is what upload_blob would do
upload_image(content_type, world) ==
    /\ IF _client = <<>>
       THEN /\ storage_calls' = Append(storage_calls,
                   StorageCall("upload_image", content_type, "AssertionError", FALSE))
            /\ UNCHANGED blobs
       ELSE IF world = "fail"
       THEN /\ storage_calls' = Append(storage_calls,
                   StorageCall("upload_image", content_type, "StorageError", TRUE))
            /\ UNCHANGED blobs
       ELSE /\ blobs' = blobs \cup {[name |-> BlobNames[Len(storage_calls) + 1],
                                   ext |-> Extension(content_type)]}
            /\ storage_calls' = Append(storage_calls,
                   StorageCall("upload_image", content_type, "ok", TRUE))
    /\ UNCHANGED <<db, _client, resp>>

\* StorageService.delete_image; world is what delete_blob would do
delete_image(blob_name, world) ==
    /\ IF _client = <<>>
       THEN /\ storage_calls' = Append(storage_calls,
                   StorageCall("delete_image", blob_name, "AssertionError", FALSE))
            /\ UNCHANGED blobs
       ELSE IF world = "fail"
       THEN \* except Exception: logged, not raised
            /\ storage_calls' = Append(storage_calls,
                   StorageCall("delete_image", blob_name, "ok", TRUE))
            /\ UNCHANGED blobs
       ELSE /\ blobs' = {b \in blobs : b.name # blob_name}
            /\ storage_calls' = Append(storage_calls,
                   StorageCall("delete_image", blob_name, "ok", TRUE))
    /\ UNCHANGED <<db, _client, resp>>

\* StorageService.close
storage_close ==
    /\ _client' = <<>>
    /\ storage_calls' = Append(storage_calls,
                               StorageCall("close", "", "ok", _client # <<>>))
    /\ UNCHANGED <<db, blobs, resp>>

\* ------------------------------------------------------------ specifications
\* the module globals as the imports leave them
AtImport ==
    /\ _apple_keys_cache = <<>> /\ _apple_keys_fetched_at = <<>> /\ key_calls = {}
    /\ _client = <<>> /\ blobs = {} /\ storage_calls = <<>>

NoRequest == Resp("none", 0, NoUser, NoHeader, [kind |-> "none"], NoBody)
EmptyDb ==
    /\ users = {} /\ meals = {} /\ foods = {} /\ water = {} /\ weight = {}
    /\ ids = [user |-> 0, meal |-> 0]
    /\ resp = NoRequest

\* what verify_apple_identity_token can do with an identity token
AppleOk(sub) == [outcome |-> "ok", sub |-> sub, email |-> None]
AppleVerifications ==
    {AppleOk(sub) : sub \in AppleSubjects}
    \cup {[outcome |-> o, sub |-> None, email |-> None] : o \in {"ValueError", "HTTPError"}}

\* the credentials a client holds: no header, or an access token it was issued
AccessTokens == {create_access_token(u) : u \in UserIds}
ClientCredentials == {NoHeader} \cup AccessTokens
\* the meal identifiers a run can hand out, and the path parameters clients send
MealIds == 1..(MaxMealRows + Len(DemoMeals))
MealIdParams == (1..MaxMealRows) \cup {MalformedId}

\* --- account lifecycle: sign-in, logging, seeding, account deletion
InitAccount ==
    /\ EmptyDb
    /\ fkEnforced \in BOOLEAN
    /\ driverStrict \in BOOLEAN
    /\ now = ClockStart
    /\ AtImport

NextAccount ==
    \/ sign_in_with_apple(AppleOk("apple-A"), None, None) /\ UNCHANGED env
    \/ \E cred \in ClientCredentials, n \in FoodCounts :
          create_meal(cred, "lunch", AtOffset(720, 0), Lunch, n) /\ UNCHANGED env
    \/ \E cred \in ClientCredentials, id \in MealIds : delete_meal(cred, id) /\ UNCHANGED env
    \/ \E cred \in ClientCredentials : log_water(cred, DefaultWaterMl) /\ UNCHANGED env
    \/ \E cred \in ClientCredentials : log_weight(cred, 70, Naive(720)) /\ UNCHANGED env
    \/ \E cred \in ClientCredentials : post_demo_seed(cred) /\ UNCHANGED env
    \/ \E cred \in ClientCredentials : auth_delete_account(cred) /\ UNCHANGED env
    \/ \E cred \in ClientCredentials : user_delete_account(cred) /\ UNCHANGED env

SpecAccount == InitAccount /\ [][NextAccount]_vars

\* --- meals of two users: create, list, update, delete
InitMeals ==
    /\ EmptyDb
    /\ fkEnforced = TRUE
    /\ driverStrict = TRUE
    /\ now = ClockStart
    /\ AtImport

\* the bodies of PUT /meals/{id}: the fields they carry
UpdatePayloads == {[meal_time |-> AtOffset(t, 60)] : t \in Instants}

NextMeals ==
    \/ \E sub \in AppleSubjects : sign_in_with_apple(AppleOk(sub), None, None) /\ UNCHANGED env
    \/ \E cred \in AccessTokens, n \in FoodCounts :
          create_meal(cred, "lunch", AtOffset(720, 0), Lunch, n) /\ UNCHANGED env
    \/ \E cred \in AccessTokens : get_meals(cred, NoDate, 0) /\ UNCHANGED env
    \/ \E cred \in AccessTokens, id \in MealIdParams, p \in UpdatePayloads :
          update_meal(cred, id, p) /\ UNCHANGED env
    \/ \E cred \in AccessTokens, id \in MealIdParams :
          delete_meal(cred, id) /\ UNCHANGED env

SpecMeals == InitMeals /\ [][NextMeals]_vars

\* --- one user's meal times: create, list by day, update, delete
InitMealTime ==
    /\ EmptyDb
    /\ fkEnforced = TRUE
    /\ driverStrict = TRUE
    /\ now = ClockStart
    /\ AtImport

SentTimes == {AtOffset(t, o) : t \in Instants, o \in Offsets} \cup {Naive(t) : t \in Instants}
TimePayloads == {[meal_type |-> "snack"]} \cup {[meal_time |-> dt] : dt \in SentTimes}

NextMealTime ==
    \/ sign_in_with_apple(AppleOk("apple-A"), None, None) /\ UNCHANGED env
    \/ \E cred \in ClientCredentials, dt \in SentTimes, n \in FoodCounts :
          create_meal(cred, "lunch", dt, Lunch, n) /\ UNCHANGED env
    \/ \E cred \in ClientCredentials, day \in {NoDate, <<0>>}, tz \in Offsets :
          get_meals(cred, day, tz) /\ UNCHANGED env
    \/ \E cred \in ClientCredentials, id \in MealIdParams, p \in TimePayloads :
          update_meal(cred, id, p) /\ UNCHANGED env
    \/ \E cred \in ClientCredentials, id \in MealIdParams :
          delete_meal(cred, id) /\ UNCHANGED env

SpecMealTime == InitMealTime /\ [][NextMealTime]_vars

\* --- authentication: sign-in, device auth, refresh, a protected read, deletion
InitAuth ==
    /\ EmptyDb
    /\ fkEnforced = TRUE
    /\ driverStrict = TRUE
    /\ now = ClockStart
    /\ AtImport

NextAuth ==
    \/ \E v \in AppleVerifications : sign_in_with_apple(v, None, None) /\ UNCHANGED env
    \/ \E d \in DeviceIds \cup {AbsentField} : device_auth(d) /\ UNCHANGED env
    \/ \E tok \in Tokens : refresh_token(tok) /\ UNCHANGED env
    \/ \E cred \in Credentials : get_profile(cred) /\ UNCHANGED env
    \/ \E cred \in ClientCredentials : auth_delete_account(cred) /\ UNCHANGED env

SpecAuth == InitAuth /\ [][NextAuth]_vars

\* --- food analysis: uploads of every kind, against every state of the providers
InitAnalyze ==
    /\ EmptyDb
    /\ fkEnforced = TRUE
    /\ driverStrict = TRUE
    /\ now = ClockStart
    /\ AtImport

ContentTypes == AllowedContentTypes \cup {"image/gif"}
ImageSizes == {1, MaxImageBytes - 1, MaxImageBytes, MaxImageBytes + 1}
\* the values of the declared settings the chain reads, and the external services
SettingsValues == [{"anthropic_enabled"} -> BOOLEAN]
Worlds == [{Providers[i] : i \in DOMAIN Providers} -> {"payload", "fail"}]

NextAnalyze ==
    \/ sign_in_with_apple(AppleOk("apple-A"), None, None) /\ UNCHANGED env
    \/ \E cred \in {NoHeader, create_access_token(1)},
          ct \in ContentTypes, size \in ImageSizes, cfg \in SettingsValues, world \in Worlds :
             analyze_food(cred, ct, size, cfg, world) /\ UNCHANGED env

SpecAnalyze == InitAnalyze /\ [][NextAnalyze]_vars

\* --- daily statistics: meals and water logged over two days, read per day
\* the clock advances in half days up to ClockEnd, the first minute of day 1
HalfDay == MinutesPerDay \div 2
ClockEnd == MinutesPerDay
Tick ==
    /\ now < ClockEnd
    /\ now' = now + HalfDay
    /\ UNCHANGED <<db, fkEnforced, driverStrict, services, resp>>

Snack == [total_calories |-> 210, protein_grams |-> 8, carbs_grams |-> 35,
          fat_grams |-> 5, fiber_grams |-> 4]
\* meal times a client sends: the first and last minute of day 0, the first of day 1
MealMinutes == {DayStart(0), DayEnd(0), DayStart(1)}
DateParams == {NoDate, <<0>>, <<1>>, BadDate}

InitDaily ==
    /\ EmptyDb
    /\ fkEnforced = TRUE
    /\ driverStrict = TRUE
    /\ now = ClockStart
    /\ AtImport

NextDaily ==
    \/ \E sub \in AppleSubjects : sign_in_with_apple(AppleOk(sub), None, None) /\ UNCHANGED env
    \/ \E cred \in AccessTokens, t \in MealMinutes, n \in {Lunch, Snack} :
          create_meal(cred, "lunch", Naive(t), n, 0) /\ UNCHANGED env
    \/ \E cred \in AccessTokens : log_water(cred, DefaultWaterMl) /\ UNCHANGED env
    \/ \E cred \in AccessTokens : post_demo_seed(cred) /\ UNCHANGED env
    \/ Tick
    \/ \E cred \in ClientCredentials, d \in DateParams, tz \in Offsets :
          get_daily_stats(cred, d, tz) /\ UNCHANGED env

SpecDaily == InitDaily /\ [][NextDaily]_vars

\* --- statistics over a filled diary: one user whose meals of days 0..DiaryDays-1
\* are already stored (each one written by POST /meals), read by the queries
DiaryDays == 5
NoMeal == [kind |-> "no meal"]
\* the meal_records rows of a diary: at most one meal a day, at noon
DiaryRows(diary, uid) ==
    {[id |-> d + 1, user_id |-> uid, meal_type |-> "lunch",
      meal_time |-> Naive(DayStart(d) + HalfDay),
      total_calories |-> diary[d].total_calories,
      protein_grams |-> diary[d].protein_grams,
      carbs_grams |-> diary[d].carbs_grams,
      fat_grams |-> diary[d].fat_grams,
      fiber_grams |-> diary[d].fiber_grams] : d \in {x \in DOMAIN diary : diary[x] # NoMeal}}

InitDiary ==
    /\ users = {create_user_from_apple(1, "apple-A", None, None)}
    /\ \E diary \in [0..(DiaryDays - 1) -> {NoMeal, Lunch, Snack}] :
          meals = DiaryRows(diary, 1)
    /\ foods = {} /\ water = {} /\ weight = {}
    /\ ids = [user |-> 1, meal |-> DiaryDays]
    /\ resp = NoRequest
    /\ fkEnforced = TRUE
    /\ driverStrict = TRUE

WeekParams == {NoDate, <<0>>, <<3>>}

\* the clock stands in the week after the diary's
InitWeekly == InitDiary /\ now = ClockStart + 9 * MinutesPerDay /\ AtImport

NextWeekly ==
    \E cred \in {NoHeader, create_access_token(1)}, week \in WeekParams, tz \in {0, 60} :
        get_weekly_stats(cred, week, tz) /\ UNCHANGED env

SpecWeekly == InitWeekly /\ [][NextWeekly]_vars

\* --- monthly statistics and streaks: meals on any of the first LoggedDays days
\* of January, read on 7 January and on 10 February
LoggedDays == 9
InitMonthly ==
    /\ users = {create_user_from_apple(1, "apple-A", None, None)}
    /\ \E diary \in [0..(LoggedDays - 1) -> {NoMeal, Lunch}] : meals = DiaryRows(diary, 1)
    /\ foods = {} /\ water = {} /\ weight = {}
    /\ ids = [user |-> 1, meal |-> LoggedDays]
    /\ resp = NoRequest
    /\ fkEnforced = TRUE
    /\ driverStrict = TRUE
    /\ now \in {ClockStart + 6 * MinutesPerDay, ClockStart + 40 * MinutesPerDay}
    /\ AtImport

MonthParams == {NoDate, <<0>>, <<1>>, BadDate, MonthOutOfRange}

NextMonthly ==
    \/ \E cred \in {NoHeader, create_access_token(1)}, month \in MonthParams :
          get_monthly_stats(cred, month, 0) /\ UNCHANGED env
    \/ \E cred \in {NoHeader, create_access_token(1)} : get_streaks(cred) /\ UNCHANGED env

SpecMonthly == InitMonthly /\ [][NextMonthly]_vars

\* --- insights: a diary of InsightDays days ending today, with or without two
\* litres of water a day
InsightDays == 5
Balanced == [total_calories |-> 2000, protein_grams |-> 90, carbs_grams |-> 250,
             fat_grams |-> 60, fiber_grams |-> 20]
Feast == [total_calories |-> 3000, protein_grams |-> 40, carbs_grams |-> 400,
          fat_grams |-> 100, fiber_grams |-> 10]
InitInsights ==
    /\ users = {create_user_from_apple(1, "apple-A", None, None)}
    /\ \E diary \in [0..(InsightDays - 1) -> {NoMeal, Lunch, Balanced, Feast}] :
          meals = DiaryRows(diary, 1)
    /\ \E amount_ml \in {0, 2000} :
          water = {[id |-> d + 1, user_id |-> 1, amount_ml |-> amount_ml,
                    recorded_at |-> Naive(DayStart(d) + HalfDay)] :
                   d \in {x \in 0..(InsightDays - 1) : amount_ml > 0}}
    /\ foods = {} /\ weight = {}
    /\ ids = [user |-> 1, meal |-> InsightDays]
    /\ resp = NoRequest
    /\ fkEnforced = TRUE
    /\ driverStrict = TRUE
    /\ now = ClockStart + (InsightDays - 1) * MinutesPerDay
    /\ AtImport

NextInsights ==
    \E cred \in {NoHeader, create_access_token(1)} : get_insights(cred, 0) /\ UNCHANGED env

SpecInsights == InitInsights /\ [][NextInsights]_vars

\* --- Apple sign-in: any subject with any email and full name in the request,
\* with or without an email claim in the token, and account deletion
RequestEmails == {None, "", "a@example.com", "b@example.com"}
RequestNames == {None, "", "Alice", "Bob", PlaceholderName}
InitApple == InitAuth
NextApple ==
    \/ \E v \in {AppleOk(sub) : sub \in AppleSubjects}
                 \cup {[AppleOk("apple-A") EXCEPT !.email = "claim@example.com"]},
          email \in RequestEmails, full_name \in RequestNames :
             sign_in_with_apple(v, email, full_name) /\ UNCHANGED env
    \/ \E cred \in AccessTokens : auth_delete_account(cred) /\ UNCHANGED env
SpecApple == InitApple /\ [][NextApple]_vars

\* --- meal updates: two users with one meal each (the first with a detected
\* food), updated with bodies of no, one and two fields
FieldPayloads ==
    UpdatePayloads
    \cup {<<>>, [meal_type |-> "snack"], [meal_type |-> None],
          [meal_type |-> "dinner", total_calories |-> 700]}
InitUpdate ==
    /\ users = {create_user_from_apple(1, "apple-A", None, None),
                create_user_from_apple(2, "apple-B", None, None)}
    /\ meals = DiaryRows([d \in {0, 1} |-> Lunch], 1)
               \cup {[m EXCEPT !.id = 3, !.user_id = 2] : m \in DiaryRows([d \in {0} |-> Snack], 2)}
    /\ foods = {[id |-> <<1, 1>>, meal_record_id |-> 1, name |-> <<"food", 1>>]}
    /\ water = {} /\ weight = {}
    /\ ids = [user |-> 2, meal |-> 3]
    /\ resp = NoRequest
    /\ fkEnforced = TRUE
    /\ driverStrict = TRUE
    /\ now = ClockStart
    /\ AtImport
NextUpdate ==
    \E cred \in ClientCredentials, id \in 0..3, p \in FieldPayloads :
        update_meal(cred, id, p) /\ UNCHANGED env
SpecUpdate == InitUpdate /\ [][NextUpdate]_vars

\* --- achievements: accounts with total_meals meals on total_days days and
\* total_water_logs water logs, the counts taken around every target
MealCounts == {0, 1, 2, 9, 10, 11, 49, 50, 51, 99, 100, 101}
DayCounts == {1, 6, 7, 8, 29, 30, 31}
WaterCounts == {0, 1, 2, 49, 50, 51}
InitAchievements ==
    /\ users = {create_user_from_apple(1, "apple-A", None, None)}
    /\ \E total_meals \in MealCounts, total_days \in DayCounts :
          /\ total_days <= total_meals \/ (total_meals = 0 /\ total_days = 1)
          /\ meals = {[id |-> i, user_id |-> 1, meal_type |-> "lunch",
                       meal_time |-> Naive(DayStart(i % total_days) + HalfDay),
                       total_calories |-> Lunch.total_calories,
                       protein_grams |-> Lunch.protein_grams,
                       carbs_grams |-> Lunch.carbs_grams,
                       fat_grams |-> Lunch.fat_grams,
                       fiber_grams |-> Lunch.fiber_grams] : i \in 1..total_meals}
          /\ ids = [user |-> 1, meal |-> total_meals]
    /\ \E total_water_logs \in WaterCounts :
          water = {[id |-> i, user_id |-> 1, amount_ml |-> DefaultWaterMl,
                    recorded_at |-> Naive(DayStart(0) + i)] : i \in 1..total_water_logs}
    /\ foods = {} /\ weight = {}
    /\ resp = NoRequest
    /\ fkEnforced = TRUE
    /\ driverStrict = TRUE
    /\ now = ClockStart + 31 * MinutesPerDay
    /\ AtImport
NextAchievements ==
    \E cred \in {NoHeader, create_access_token(1)} : get_achievements(cred) /\ UNCHANGED env
SpecAchievements == InitAchievements /\ [][NextAchievements]_vars

\* --- the Apple key cache: up to MaxKeyCalls concurrent calls, at instants
\* around the start of the run and around the cache duration after it
MaxKeyCalls == 2
KeyInstants ==
    {ClockStart + d : d \in {0, 1, 2, APPLE_KEYS_CACHE_DURATION - 1, APPLE_KEYS_CACHE_DURATION,
                             APPLE_KEYS_CACHE_DURATION + 1, APPLE_KEYS_CACHE_DURATION + 2}}
InitKeys == InitAuth
Elapse ==
    /\ \E t \in KeyInstants :
          /\ t > now
          \* httpx.AsyncClient(timeout=10.0): a suspended call is over within two minutes
          /\ \A c \in key_calls : t - c.now <= 2
          /\ now' = t
    /\ UNCHANGED <<db, fkEnforced, driverStrict, services, resp>>
NextKeys ==
    \/ \E call \in 1..MaxKeyCalls :
          /\ _get_apple_public_keys(call)
          /\ UNCHANGED <<fkEnforced, driverStrict, now, _client, blobs, storage_calls>>
    \/ \E c \in key_calls, outcome \in {"ok", "HTTPStatusError"} :
          /\ _get_apple_public_keys_resume(c, outcome)
          /\ UNCHANGED <<fkEnforced, driverStrict, now, _client, blobs, storage_calls>>
    \/ Elapse
SpecKeys == InitKeys /\ [][NextKeys]_vars

\* --- the storage service: any sequence of up to MaxStorageCalls calls on
\* the singleton, the storage account answering either way
MaxStorageCalls == 3
StorageContentTypes == {"image/jpeg", "image/png", "image/webp"}
StorageWorlds == {"ok", "fail"}
InitStorage == InitAuth
StorageCallAllowed ==
    /\ Len(storage_calls) < MaxStorageCalls
    /\ UNCHANGED <<fkEnforced, driverStrict, now, _apple_keys_cache, _apple_keys_fetched_at,
                   key_calls>>
NextStorage ==
    \/ \E created \in StorageWorlds : storage_init(created) /\ StorageCallAllowed
    \/ \E ct \in StorageContentTypes, world \in StorageWorlds :
          upload_image(ct, world) /\ StorageCallAllowed
    \/ \E b \in {"b1", "b2"}, world \in StorageWorlds :
          delete_image(b, world) /\ StorageCallAllowed
    \/ storage_close /\ StorageCallAllowed
SpecStorage == InitStorage /\ [][NextStorage]_vars

\* --- the profile of one user: updates of every kind of attribute, and reads
ProfilePayloads ==
    {<<>>,
     [display_name |-> "Alice"],
     [display_name |-> None],
     [daily_calorie_goal |-> 1800, daily_protein_goal |-> 90],
     [daily_carbs_goal |-> 200, daily_fat_goal |-> 70],
     [avatar_url |-> "a.png", target_weight |-> <<65>>],
     [gender |-> "female"],
     [birth_year |-> <<1990>>, height_cm |-> <<170>>, activity_level |-> "active"],
     [display_name |-> "Bob", gender |-> "male"]}
InitProfile ==
    /\ users = {[id |-> 1, apple_user_id |-> "apple-A", display_name |-> PlaceholderName,
                 email |-> None, avatar_url |-> None, daily_calorie_goal |-> 2000,
                 daily_protein_goal |-> 50, daily_carbs_goal |-> 250, daily_fat_goal |-> 65,
                 target_weight |-> <<>>]}
    /\ meals = {} /\ foods = {} /\ water = {} /\ weight = {}
    /\ ids = [user |-> 1, meal |-> 0]
    /\ resp = NoRequest
    /\ fkEnforced = TRUE
    /\ driverStrict = TRUE
    /\ now = ClockStart
    /\ AtImport
NextProfile ==
    \/ \E cred \in ClientCredentials, p \in ProfilePayloads :
          update_profile(cred, p) /\ UNCHANGED env
    \/ \E cred \in ClientCredentials : get_profile(cred) /\ UNCHANGED env
SpecProfile == InitProfile /\ [][NextProfile]_vars

\* --- one day seen through both endpoints: two users whose meals lie on the
\* edges of day 0 and day 1, read by GET /meals and GET /stats/daily
DayViewRow(i, at, n) ==
    [id |-> i, user_id |-> IF i = 5 THEN 2 ELSE 1, meal_type |-> "lunch",
     meal_time |-> Naive(at),
     total_calories |-> n.total_calories, protein_grams |-> n.protein_grams,
     carbs_grams |-> n.carbs_grams, fat_grams |-> n.fat_grams,
     fiber_grams |-> n.fiber_grams]
DayViewRows ==
    {DayViewRow(1, DayStart(0), Lunch), DayViewRow(2, DayEnd(0), Snack),
     DayViewRow(3, DayStart(1), Lunch), DayViewRow(4, DayEnd(0), Lunch),
     DayViewRow(5, DayStart(0) + HalfDay, Snack)}
InitDayView ==
    /\ users = {create_user_from_apple(1, "apple-A", None, None),
                create_user_from_apple(2, "apple-B", None, None)}
    /\ meals \in SUBSET DayViewRows
    /\ foods = {} /\ water = {} /\ weight = {}
    /\ ids = [user |-> 2, meal |-> 5]
    /\ resp = NoRequest
    /\ fkEnforced = TRUE
    /\ driverStrict = TRUE
    /\ now = ClockStart
    /\ AtImport
NextDayView ==
    \/ \E cred \in ClientCredentials, day \in {NoDate, <<0>>, <<1>>}, tz \in Offsets :
          get_meals(cred, day, tz) /\ UNCHANGED env
    \/ \E cred \in ClientCredentials, d \in DateParams, tz \in Offsets :
          get_daily_stats(cred, d, tz) /\ UNCHANGED env
SpecDayView == InitDayView /\ [][NextDayView]_vars

\* --- food search: any of a few queries with any of a few limits
DefaultLimit == 20
\* "", " ", "rice", "RICE", " Rice ", "e", "o", "tofu", "Chicken", "zzz", and
\* two Chinese characters, one in one name and one in two
Queries == {<<>>, <<32>>, <<114, 105, 99, 101>>, <<82, 73, 67, 69>>, <<32, 82, 105, 99, 101, 32>>, <<101>>, <<111>>, <<116, 111, 102, 117>>, <<67, 104, 105, 99, 107, 101, 110>>, <<122, 122, 122>>, <<31859>>, <<39277>>}
Limits == {-1, 0, 1, 2, 3, 5, DefaultLimit, Len(_LOCAL_FOOD_DB), Len(_LOCAL_FOOD_DB) + 1}
InitSearch == InitAnalyze
NextSearch == \E q \in Queries, limit \in Limits : search_food(q, limit) /\ UNCHANGED env
SpecSearch == InitSearch /\ [][NextSearch]_vars

\* ------------------------------------------------------------------ claims
DeleteAccountOps == {"auth.delete_account", "user.delete_account"}

GetMealsOnlyOwn ==
    (resp.op = "get_meals" /\ resp.status = 200) =>
        \A i \in DOMAIN resp.body.items :
            \E m \in meals : m.id = resp.body.items[i].id /\ m.user_id = resp.caller

\* a PUT or DELETE that names a meal of another user is answered 404 and
\* changes neither table
ForeignMealUntouched ==
    (/\ resp'.op \in {"update_meal", "delete_meal"}
     /\ resp'.caller # NoUser
     /\ \E m \in meals : m.id = resp'.req.meal_id /\ m.user_id # resp'.caller)
    => (resp'.status = 404 /\ meals' = meals /\ foods' = foods)

\* C2: for distinct users A and B, GET /meals by B never returns a meal of A, and
\* PUT and DELETE /meals/{id} by B with the id of a meal of A answer 404 and leave
\* the meal and its detected foods unchanged.
C2_MealIsolation == []GetMealsOnlyOwn /\ [][ForeignMealUntouched]_vars

\* B was refused A's meal, which has detected foods
C2_Witness ==
    /\ resp.op = "update_meal" /\ resp.status = 404 /\ resp.caller # NoUser
    /\ \E m \in meals : /\ m.id = resp.req.meal_id
                        /\ m.user_id # resp.caller
                        /\ FoodsOfMeal(m.id) # {}

\* C3: an access token is rejected as a refresh token (401 from POST
\* /auth/refresh), and a refresh token is rejected as the bearer credential of a
\* protected endpoint (401).
C3_TokenTypesNotInterchangeable ==
    /\ (resp.op = "refresh_token" /\ \E u \in UserIds : resp.cred = create_access_token(u))
          => resp.status = 401
    /\ (resp.op = "get_profile" /\ \E u \in UserIds : resp.cred = create_refresh_token(u))
          => resp.status = 401

\* C4: get_current_user_id ends in 401 when there is no Authorization header,
\* when signature or expiry fail, when sub is missing, and when sub is no UUID.
C4_BadCredentialIs401 ==
    (/\ resp.op \in {"get_profile", "auth.delete_account"}
     /\ \/ resp.cred.kind = "none"
        \/ ~resp.cred.valid
        \/ ~resp.cred.hasSub
        \/ ~resp.cred.subIsUuid)
    => resp.status = 401

\* C5: POST /food/analyze without a valid bearer access token is answered 401
\* and analyze_food_image is not invoked.
C5_AnalyzeIsProtected ==
    (resp.op = "analyze_food" /\ get_current_user_id(resp.cred).status # 200)
    => (resp.status = 401 /\ ~resp.body.ai_invoked)

\* no provider can answer: each one is switched off, unconfigured or failing
NoProviderAnswers(cfg, world) ==
    \A i \in DOMAIN Providers :
        \/ GuardSetting(Providers[i]) \notin DOMAIN cfg
        \/ ~cfg[GuardSetting(Providers[i])]
        \/ world[Providers[i]] = "fail"

\* C6: with every provider disabled, unconfigured or failing, analyze_food_image
\* returns the normalized mock analysis (three foods, 600 kcal, tags balanced,
\* chinese-cuisine, home-cooked) and raises nothing.
C6_MockFallback ==
    (/\ resp.op = "analyze_food"
     /\ resp.body.ai_invoked
     /\ NoProviderAnswers(resp.req.cfg, resp.req.world))
    => /\ ~resp.body.result.raised
       /\ Len(resp.body.result.analysis.detected_foods) = 3
       /\ resp.body.result.analysis.total_calories = 600
       /\ resp.body.result.analysis.tags = <<"balanced", "chinese-cuisine", "home-cooked">>

\* C7: POST /food/analyze answers 400 without calling analyze_food_image when the
\* content type is not JPEG, PNG or WebP or the body is longer than 10,485,760
\* bytes; a body of exactly 10,485,760 bytes of an allowed type reaches
\* analyze_food_image.
C7_AnalyzeValidation ==
    resp.op = "analyze_food" =>
        /\ (\/ resp.req.content_type \notin {"image/jpeg", "image/png", "image/webp"}
            \/ resp.req.size > 10485760)
              => (resp.status = 400 /\ ~resp.body.ai_invoked)
        /\ (/\ resp.req.content_type \in {"image/jpeg", "image/png", "image/webp"}
            /\ resp.req.size = 10485760)
              => resp.body.ai_invoked

\* an upload of exactly the limit, of an allowed type, reached the AI service
C7_Witness ==
    /\ resp.op = "analyze_food"
    /\ resp.req.content_type = "image/webp"
    /\ resp.req.size = 10485760
    /\ resp.body.ai_invoked

\* the meal_time a create or update request sent, when it carried a UTC offset
SentMealTime ==
    IF resp.op = "create_meal" THEN {resp.req.meal_time}
    ELSE IF resp.op = "update_meal" /\ "meal_time" \in DOMAIN resp.req.payload
    THEN {resp.req.payload.meal_time}
    ELSE {}

\* C8: a meal created (or updated) with meal_time t written with offset o reads
\* back, in the response and from GET /meals, as a UTC-aware time denoting t.
C8_MealTimeRoundTrip ==
    (resp.op \in {"create_meal", "update_meal"} /\ resp.status \in {200, 201}) =>
        \A sent \in {dt \in SentMealTime : dt.aware} :
            /\ resp.body.meal_time.aware
            /\ resp.body.meal_time.off = 0
            /\ InstantOf(resp.body.meal_time) = InstantOf(sent)
            /\ \A m \in meals :
                  m.id = resp.body.id =>
                      InstantOf(_meal_to_response(m).meal_time) = InstantOf(sent)

\* C9: POST /auth/device with an identifier of at least 10 characters returns
\* tokens whose sub is the one user row kept for that identifier.
C9_DeviceAuthSameUser ==
    (/\ resp.op = "device_auth"
     /\ resp.req.device_id # AbsentField
     /\ Len(resp.req.device_id) >= 10)
    => /\ resp.status = 200
       /\ resp.body.kind = "tokens"
       /\ Cardinality({u \in users : u.apple_user_id = resp.req.device_id}) = 1
       /\ \A u \in users :
             u.apple_user_id = resp.req.device_id =>
                 /\ resp.body.access_token.sub = u.id
                 /\ resp.body.refresh_token.sub = u.id

\* C10: POST /auth/device answers 400 for a device identifier that is absent,
\* empty or shorter than 10 characters, creates no user and issues no token.
C10_ShortDeviceIdIs400 ==
    [][(/\ resp'.op = "device_auth"
        /\ \/ resp'.req.device_id = AbsentField
           \/ Len(resp'.req.device_id) < 10)
       => (resp'.status = 400 /\ resp'.body = NoBody /\ users' = users)]_vars

\* C11: POST /auth/refresh with a valid refresh token returns an access and a
\* refresh token for the same user while the user's row exists; once the
\* account is deleted, a refresh token issued before the deletion is answered
\* 401 and no token is issued.
C11_RefreshFollowsUserRow ==
    \A u \in UserIds :
        (resp.op = "refresh_token" /\ resp.cred = create_refresh_token(u) /\ u <= ids.user)
        => IF \E row \in users : row.id = u
           THEN /\ resp.status = 200
                /\ resp.body.kind = "tokens"
                /\ resp.body.access_token.sub = u
                /\ resp.body.access_token.type = "access"
                /\ resp.body.refresh_token.sub = u
                /\ resp.body.refresh_token.type = "refresh"
           ELSE resp.status = 401 /\ resp.body = NoBody

\* a refresh token of a deleted account was refused while another account exists
C11_Witness ==
    /\ resp.op = "refresh_token" /\ resp.status = 401
    /\ \E u \in UserIds : /\ resp.cred = create_refresh_token(u)
                          /\ u <= ids.user
                          /\ \A row \in users : row.id # u
    /\ users # {}

\* GET /stats/daily for a given date counts and sums exactly the caller's meals
\* and water logs inside the day's bounds shifted by the offset
DailyFiguresMatchRows ==
    (resp.op = "get_daily_stats" /\ resp.status = 200 /\ Len(resp.req.date) = 1) =>
        LET lo == resp.req.date[1] * 1440 - resp.req.tz_offset
            hi == resp.req.date[1] * 1440 + 1439 - resp.req.tz_offset
            ms == {m \in meals : m.user_id = resp.caller /\ lo <= m.meal_time.wall
                                                         /\ m.meal_time.wall <= hi}
            ws == {w \in water : w.user_id = resp.caller /\ lo <= w.recorded_at.wall
                                                         /\ w.recorded_at.wall <= hi}
        IN /\ resp.body.meal_count = Cardinality(ms)
           /\ resp.body.total_calories = SumOver(ms, "total_calories")
           /\ resp.body.protein_grams = SumOver(ms, "protein_grams")
           /\ resp.body.carbs_grams = SumOver(ms, "carbs_grams")
           /\ resp.body.fat_grams = SumOver(ms, "fat_grams")
           /\ resp.body.fiber_grams = SumOver(ms, "fiber_grams")
           /\ resp.body.water_ml = SumOver(ws, "amount_ml")
           /\ (ms = {} /\ ws = {}) =>
                 /\ resp.body.meal_count = 0 /\ resp.body.total_calories = 0
                 /\ resp.body.water_ml = 0

\* a demo seed requested by a user without meals or water logs leaves the day
\* with 1080 kcal, 3 meals and 1250 ml of water
SeededDayFigures ==
    \A u \in UserIds :
        (/\ resp'.op = "seed_demo_data" /\ now' = now
         /\ resp'.cred = create_access_token(u)
         /\ \E row \in users : row.id = u
         /\ \A m \in meals : m.user_id # u
         /\ \A w \in water : w.user_id # u)
        => /\ (_get_daily_stats(u, now \div 1440, 0))'.total_calories = 1080
           /\ (_get_daily_stats(u, now \div 1440, 0))'.meal_count = 3
           /\ (_get_daily_stats(u, now \div 1440, 0))'.water_ml = 1250

\* C12: GET /stats/daily returns the count and the sums of the user's meals in
\* [midnight of D minus o, end of D minus o] and the sum of the water logs in
\* the same bounds, 0 when nothing matches; after a demo seed the day's result
\* is total_calories 1080, meal_count 3, water_ml 1250.
C12_DailyStats == []DailyFiguresMatchRows /\ [][SeededDayFigures]_vars

\* the caller's meals inside the seven days of a weekly response, the days of
\* the window that have one, and the divisor the averages are taken with
WeekMeals ==
    {m \in meals : /\ m.user_id = resp.caller
                   /\ m.meal_time.wall >= resp.body.week_start * 1440 - resp.req.tz_offset
                   /\ m.meal_time.wall <= resp.body.week_end * 1440 + 1439 - resp.req.tz_offset}
WeekDaysWithMeal ==
    {(m.meal_time.wall + resp.req.tz_offset) \div 1440 : m \in WeekMeals}
WeekDivisor == IF WeekDaysWithMeal = {} THEN 1 ELSE Cardinality(WeekDaysWithMeal)
\* avg (in tenths) is total / n rounded to one decimal place, a tie going to the
\* even tenth
IsRoundedQuotient(avg, total, n) ==
    LET diff == IF 10 * total >= avg * n THEN 10 * total - avg * n ELSE avg * n - 10 * total
    IN 2 * diff < n \/ (2 * diff = n /\ avg % 2 = 0)

\* C13 as stated: each of the four weekly averages equals the 7-day total
\* divided by the number of days of the window with a meal (by 1 when there is
\* none), a week without meals gives averages 0 and total_meals 0, and
\* total_meals is the sum of the daily meal counts.
C13_WeeklyAveragesExact ==
    (resp.op = "get_weekly_stats" /\ resp.status = 200) =>
        /\ resp.body.avg_calories * WeekDivisor = 10 * SumOver(WeekMeals, "total_calories")
        /\ resp.body.avg_protein * WeekDivisor = 10 * SumOver(WeekMeals, "protein_grams")
        /\ resp.body.avg_carbs * WeekDivisor = 10 * SumOver(WeekMeals, "carbs_grams")
        /\ resp.body.avg_fat * WeekDivisor = 10 * SumOver(WeekMeals, "fat_grams")
        /\ resp.body.total_meals = Cardinality(WeekMeals)

\* C13 (amended): each of the four weekly averages equals the 7-day total
\* divided by the number of days of the window with a meal (by 1 when there is
\* none) and rounded to one decimal place; a week without meals gives averages
\* 0 and total_meals 0; total_meals is the sum of the daily meal counts.
C13_WeeklyAveragesRounded ==
    (resp.op = "get_weekly_stats" /\ resp.status = 200) =>
        /\ IsRoundedQuotient(resp.body.avg_calories,
                             SumOver(WeekMeals, "total_calories"), WeekDivisor)
        /\ IsRoundedQuotient(resp.body.avg_protein,
                             SumOver(WeekMeals, "protein_grams"), WeekDivisor)
        /\ IsRoundedQuotient(resp.body.avg_carbs,
                             SumOver(WeekMeals, "carbs_grams"), WeekDivisor)
        /\ IsRoundedQuotient(resp.body.avg_fat,
                             SumOver(WeekMeals, "fat_grams"), WeekDivisor)
        /\ resp.body.total_meals = Cardinality(WeekMeals)
        /\ WeekMeals = {} =>
              /\ resp.body.avg_calories = 0 /\ resp.body.avg_protein = 0
              /\ resp.body.avg_carbs = 0 /\ resp.body.avg_fat = 0
              /\ resp.body.total_meals = 0

\* a week with meals on three days whose calorie total is no multiple of three
C13_Witness ==
    /\ resp.op = "get_weekly_stats" /\ resp.status = 200
    /\ Cardinality(WeekDaysWithMeal) = 3
    /\ SumOver(WeekMeals, "total_calories") % 3 # 0

\* the days of the answered month that are not after today and have a meal of
\* the caller
MonthDaysWithMeal ==
    {d \in 0..(now \div 1440) :
        /\ \E m \in meals : m.user_id = resp.caller /\ m.meal_time.wall \div 1440 = d
        /\ resp.body.month = 0 => d <= 30
        /\ resp.body.month = 1 => (31 <= d /\ d <= 59)}
\* the lengths of the runs of consecutive days inside a set of days
RunLengths(days) ==
    {b - a + 1 : <<a, b>> \in {p \in days \X days :
                                 p[1] <= p[2] /\ \A d \in p[1]..p[2] : d \in days}}

\* C14: GET /stats/monthly reports streak_days as the length of the longest run
\* of consecutive days, among the days of the month not after today, that each
\* have a meal (5 for logged days {1,2,3,5,6,7,8,9}), and 0 when no day has one.
C14_MonthlyStreak ==
    (resp.op = "get_monthly_stats" /\ resp.status = 200) =>
        /\ \A n \in RunLengths(MonthDaysWithMeal) : n <= resp.body.streak_days
        /\ resp.body.streak_days \in RunLengths(MonthDaysWithMeal) \cup {0}
        /\ MonthDaysWithMeal = {} => resp.body.streak_days = 0
        /\ MonthDaysWithMeal = {0, 1, 2, 4, 5, 6, 7, 8} => resp.body.streak_days = 5

\* January was read in February with meals on days 1,2,3,5,6,7,8,9
C14_Witness ==
    /\ resp.op = "get_monthly_stats" /\ resp.status = 200
    /\ resp.body.month = 0 /\ now \div 1440 > 30
    /\ MonthDaysWithMeal = {0, 1, 2, 4, 5, 6, 7, 8}
    /\ resp.body.streak_days = 5

\* the distinct meal dates of the caller of a streaks request, the newest of
\* them, and the length of the run of consecutive dates that ends at a date
StreakDates == {m.meal_time.wall \div 1440 : m \in {x \in meals : x.user_id = resp.caller}}
NewestDate == CHOOSE d \in StreakDates : \A e \in StreakDates : e <= d
RunEndingAt(days, last) ==
    CHOOSE n \in 1..Cardinality(days) :
        /\ \A d \in (last - n + 1)..last : d \in days
        /\ (last - n) \notin days
\* longest_streak and total_days_logged of a streaks response
LongestAndTotalAsClaimed ==
    /\ \A n \in RunLengths(StreakDates) : n <= resp.body.longest_streak
    /\ resp.body.longest_streak \in RunLengths(StreakDates) \cup {0}
    /\ StreakDates = {} => resp.body.longest_streak = 0
    /\ resp.body.total_days_logged = Cardinality(StreakDates)

\* C15 as stated: current_streak is 0 when the newest date is older than
\* yesterday and otherwise the length of the run of consecutive dates ending at
\* the newest date; longest_streak is the longest run of consecutive dates (0
\* for no dates); total_days_logged is the number of distinct dates.
C15_StreaksAsStated ==
    (resp.op = "get_streaks" /\ resp.status = 200) =>
        /\ LongestAndTotalAsClaimed
        /\ StreakDates = {} => resp.body.current_streak = 0
        /\ StreakDates # {} =>
              resp.body.current_streak =
                  IF NewestDate < (now \div 1440) - 1 THEN 0
                  ELSE RunEndingAt(StreakDates, NewestDate)

\* C15 (amended): current_streak is the length of the run of consecutive dates
\* ending at the newest date when the newest date is today or yesterday, and 0
\* otherwise (also when the newest date is after today); longest_streak is the
\* longest run of consecutive dates (0 for no dates); total_days_logged is the
\* number of distinct dates.
C15_StreaksTodayOrYesterday ==
    (resp.op = "get_streaks" /\ resp.status = 200) =>
        /\ LongestAndTotalAsClaimed
        /\ StreakDates = {} => resp.body.current_streak = 0
        /\ StreakDates # {} =>
              resp.body.current_streak =
                  IF NewestDate \in {now \div 1440, (now \div 1440) - 1}
                  THEN RunEndingAt(StreakDates, NewestDate)
                  ELSE 0
        /\ (LET t == now \div 1440 IN
               {t, t - 1, t - 2} \subseteq StreakDates /\ (t - 3) \notin StreakDates
               /\ NewestDate = t) => resp.body.current_streak = 3
        /\ (LET t == now \div 1440 IN StreakDates = {t, t - 3})
              => (resp.body.current_streak = 1 /\ resp.body.longest_streak = 1)

\* the newest date is yesterday, after a run of three days and an older run
C15_Witness ==
    /\ resp.op = "get_streaks" /\ resp.status = 200
    /\ LET t == now \div 1440 IN StreakDates = {t - 1, t - 2, t - 3, t - 5, t - 6}
    /\ resp.body.current_streak = 3

\* the rows a query matches, in table order: those whose English name contains
\* the trimmed query case-insensitively or whose Chinese name contains it
RECURSIVE MatchingRows(_, _)
MatchingRows(q, i) ==
    IF i > Len(_LOCAL_FOOD_DB) THEN <<>>
    ELSE LET food == _LOCAL_FOOD_DB[i]
             hit == \/ IsSubstring(Lower(Strip(q)), Lower(food.name))
                    \/ IsSubstring(Lower(Strip(q)), food.name_zh)
         IN (IF hit THEN <<i>> ELSE <<>>) \o MatchingRows(q, i + 1)
SearchReturnsFirst(n) ==
    LET rows == MatchingRows(resp.req.q, 1)
    IN /\ Len(resp.body.results) = n
       /\ \A k \in 1..n : resp.body.results[k].name = _LOCAL_FOOD_DB[rows[k]].name

\* C17: for every query and every integer limit the search returns exactly the
\* first min(limit, number of matches) matching rows in table order, so never
\* more than limit rows; a blank query returns the empty list.
C17_SearchCappedAtLimit ==
    (resp.op = "search_food") =>
        IF Strip(resp.req.q) = <<>> THEN resp.body.results = <<>>
        ELSE LET matches == Len(MatchingRows(resp.req.q, 1))
                 n == IF resp.req.limit < matches THEN resp.req.limit ELSE matches
             IN /\ Len(resp.body.results) <= resp.req.limit
                /\ SearchReturnsFirst(IF n < 0 THEN 0 ELSE n)

\* the sequence of the elements of sq whose index is in keep
Pick(sq, keep) == LET at == [i \in 1..Len(sq) |-> IF i \in keep THEN <<sq[i]>> ELSE <<>>]
                      cat[i \in 0..Len(sq)] == IF i = 0 THEN <<>> ELSE cat[i - 1] \o at[i]
                  IN cat[Len(sq)]
IsPrefix(p, sq) == Len(p) <= Len(sq) /\ SubSeq(sq, 1, Len(p)) = p

\* C16: GET /stats/insights returns at most 5 tips; when at least one of the
\* trailing 7 days has a meal the tip list is non-empty and is a prefix of some
\* selection of the conditional tips in their fixed order followed by the
\* encouragement tips.
C16_TipsCappedAndOrdered ==
    (resp.op = "get_insights" /\ resp.status = 200) =>
        /\ Len(resp.body.tips) <= 5
        /\ (\E m \in meals : /\ m.user_id = resp.caller
                              /\ (m.meal_time.wall \div 1440) \in ((now \div 1440) - 6)..(now \div 1440))
              => /\ resp.body.tips # <<>>
                 /\ \E keep \in SUBSET (1..7) :
                       IsPrefix(resp.body.tips,
                                Pick(ConditionalTipOrder, keep) \o EncouragementTips)

\* six rules hold (every meal is above 2500 kcal on fewer than five days, with
\* no water) and the sixth tip is cut
C16_Witness ==
    /\ resp.op = "get_insights" /\ resp.status = 200
    /\ meals # {} /\ water = {} /\ Cardinality(meals) < 5
    /\ \A m \in meals : m.total_calories > 2500 /\ m.protein_grams < 50
                          /\ m.fat_grams > 75 /\ m.carbs_grams > 300
    /\ resp.body.tips = SubSeq(ConditionalTipOrder, 1, 5)

\* a seed request by an existing user, against the rows the user had before it
SeedStepIdempotent ==
    \A u \in {x.id : x \in users} :
        (resp'.op = "seed_demo_data" /\ resp'.cred = create_access_token(u)) =>
            IF {m \in meals : m.user_id = u} # {}
            THEN /\ UNCHANGED db
                 /\ resp'.status = 200
                 /\ resp'.body.meals = Cardinality({m \in meals : m.user_id = u})
            ELSE ({w \in water : w.user_id = u} = {} /\ {w \in weight : w.user_id = u} = {})
                 => /\ Cardinality({m \in meals' : m.user_id = u}) = 3
                    /\ Cardinality({w \in water' : w.user_id = u}) = 3
                    /\ Cardinality({w \in water' : w.user_id = u /\ w.amount_ml = 250}) = 1
                    /\ Cardinality({w \in water' : w.user_id = u /\ w.amount_ml = 500}) = 2
                    /\ Cardinality({w \in weight' : w.user_id = u}) = 1
\* C18: POST /demo/seed by a user who has a meal writes nothing and reports the
\* number of meals; by a user whose account is empty it leaves the user with
\* exactly 3 meals, 3 water logs (250, 500, 500 ml) and 1 weight log.
C18_SeedIdempotent == [][SeedStepIdempotent]_vars

\* C19: in one analyze_food_image call the providers are attempted in the order
\* Anthropic, Agent Maestro, Gemini, OpenAI, each at most once and none after a
\* payload was returned, and the mock payload is used if and only if no
\* provider returned a payload.
C19_ProviderChain ==
    (resp.op = "analyze_food" /\ resp.body.ai_invoked) =>
        LET r == resp.body.result
            world == resp.req.world
        IN /\ \E keep \in SUBSET (1..Len(Providers)) : r.attempts = Pick(Providers, keep)
           /\ \A i \in 1..(Len(r.attempts) - 1) : world[r.attempts[i]] # "payload"
           /\ (~r.raised /\ r.analysis = _parse_ai_response(MockAnalysis))
                <=> (\A i \in 1..Len(r.attempts) : world[r.attempts[i]] # "payload")

\* a sign-in of the subject sub, against the row the subject had before it
SignInKeepsRow(sub) ==
    LET before == {u \in users : u.apple_user_id = sub}
        after == {u \in users' : u.apple_user_id = sub}
    IN (resp'.op = "sign_in_with_apple" /\ resp'.status = 200
        /\ resp'.req.verified.sub = sub /\ before # {}) =>
          /\ Cardinality(after) = 1
          /\ \A old \in before, new \in after :
                /\ new.id = old.id
                /\ new.email # old.email => old.email = None
                /\ new.display_name # old.display_name => old.display_name = "FoodMoment User"

\* C20: a sign-in of an existing user changes the stored email only when the
\* user has none and the display name only when it equals "FoodMoment User",
\* so a display name that differs from the placeholder survives every later
\* sign-in; no subject ever has a second user row.
C20_SignInBackfillsOnly ==
    /\ [](\A sub \in AppleSubjects : Cardinality({u \in users : u.apple_user_id = sub}) <= 1)
    /\ [][\A sub \in AppleSubjects : SignInKeepsRow(sub)]_vars

\* an existing user named Alice with an email signs in with another name and
\* another email, and keeps both
C20_Witness ==
    /\ resp.op = "sign_in_with_apple" /\ resp.status = 200
    /\ resp.req.full_name = "Bob" /\ resp.req.email = "b@example.com"
    /\ \E u \in users : /\ u.id = resp.caller
                         /\ u.display_name = "Alice" /\ u.email = "a@example.com"

\* an update request, against the rows before it
UpdateStepFrame ==
    (resp'.op = "update_meal") =>
        LET payload == resp'.req.payload
            target == {m \in meals : m.id = resp'.req.meal_id /\ m.user_id = resp'.caller}
        IN IF resp'.status = 200
           THEN /\ target # {}
                /\ foods' = foods /\ users' = users /\ water' = water /\ weight' = weight
                /\ meals \ target \subseteq meals'
                /\ Cardinality(meals') = Cardinality(meals)
                /\ \A old \in target : \E new \in meals' :
                      /\ new.id = old.id
                      /\ \A f \in DOMAIN old :
                            IF f \in DOMAIN payload
                            THEN f # "meal_time" => new[f] = payload[f]
                            ELSE new[f] = old[f]
           ELSE UNCHANGED db

C22_InvalidParameterFallsBack ==
    (/\ resp.op \in {"get_daily_stats", "get_weekly_stats", "get_monthly_stats"}
     /\ resp.caller # 0
     /\ \/ resp.op = "get_daily_stats" /\ Len(resp.req.date) > 1
        \/ resp.op = "get_weekly_stats" /\ Len(resp.req.week) > 1
        \/ resp.op = "get_monthly_stats" /\ Len(resp.req.month) > 1)
    => /\ resp.status = 200
       /\ resp.op = "get_daily_stats" => resp.body.date = now \div 1440
       /\ resp.op = "get_monthly_stats" => resp.body.month = MonthOf(now \div 1440)

\* the three counts of the caller of an achievements request
AchievementCount(of) ==
    CASE of = "meals" -> Cardinality({m \in meals : m.user_id = resp.caller})
      [] of = "days" -> Cardinality({m.meal_time.wall \div 1440 :
                                        m \in {x \in meals : x.user_id = resp.caller}})
      [] of = "water" -> Cardinality({w \in water : w.user_id = resp.caller})
AchievementTargets ==
    << <<"meals", 1>>, <<"meals", 10>>, <<"meals", 50>>, <<"meals", 100>>,
       <<"days", 7>>, <<"days", 30>>, <<"water", 1>>, <<"water", 50>> >>

\* C23: GET /user/achievements returns all 8 entries, each with progress =
\* min(count, target), 0 <= progress <= target, and unlocked exactly when the
\* count is at least the target (when progress = target), with targets 1, 10,
\* 50, 100 meals, 7 and 30 days, 1 and 50 water logs.
C23_Achievements ==
    (resp.op = "get_achievements" /\ resp.status = 200) =>
        /\ Len(resp.body.items) = 8
        /\ \A i \in 1..8 :
              LET item == resp.body.items[i]
                  count == AchievementCount(AchievementTargets[i][1])
                  target == AchievementTargets[i][2]
              IN /\ item.target = target
                 /\ item.progress = (IF count < target THEN count ELSE target)
                 /\ 0 <= item.progress /\ item.progress <= target
                 /\ item.unlocked <=> count >= target
                 /\ item.unlocked <=> item.progress = target

\* exactly 10 meals on 7 days and 50 water logs: four targets met exactly
C23_Witness ==
    /\ resp.op = "get_achievements" /\ resp.status = 200
    /\ AchievementCount("meals") = 10 /\ AchievementCount("days") = 7
    /\ AchievementCount("water") = 50
    /\ resp.body.items[2].unlocked /\ ~resp.body.items[3].unlocked
    /\ resp.body.items[5].unlocked /\ resp.body.items[8].unlocked

\* a call that returns without suspending returns the cached set, and no call
\* suspends for a fetch while the timestamp is less than 24 hours old
NoFetchWhileTimestampFresh ==
    /\ (_apple_keys_cache # <<>> /\ _apple_keys_fetched_at # <<>>
        /\ now - _apple_keys_fetched_at[1] < 24 * 60) =>
           /\ key_calls' \subseteq key_calls
           /\ (resp' # resp /\ key_calls' = key_calls /\ resp'.op = "_get_apple_public_keys")
                => resp'.body.keys = _apple_keys_cache[1]
\* the test on the time the set was stored instead
NoFetchWhileStoredRecently ==
    (_apple_keys_cache # <<>> /\ now - _apple_keys_cache[1].served_at < 24 * 60) =>
        key_calls' \subseteq key_calls
\* the two globals change together, by the completion of one suspended call,
\* and a failed fetch changes neither
CacheSetByOneFetch ==
    /\ (_apple_keys_cache' # _apple_keys_cache
        \/ _apple_keys_fetched_at' # _apple_keys_fetched_at) =>
           \E c \in key_calls :
              /\ c \notin key_calls'
              /\ _apple_keys_fetched_at' = <<c.now>>
              /\ _apple_keys_cache' = << [served_at |-> now] >>
    /\ (resp' # resp /\ resp'.op = "_get_apple_public_keys" /\ resp'.status # 200) =>
           UNCHANGED <<_apple_keys_cache, _apple_keys_fetched_at>>

\* C24 as stated: no fetch starts while a key set stored less than 24 hours
\* ago is cached; under every interleaving the cache and its timestamp are
\* both unset or both set by the same completed fetch; a failed fetch leaves
\* both unchanged.
C24_KeyCacheStoredRecently ==
    /\ []((_apple_keys_cache = <<>>) <=> (_apple_keys_fetched_at = <<>>))
    /\ [][NoFetchWhileStoredRecently /\ CacheSetByOneFetch]_vars

\* C24 (amended): no fetch starts, and the cached set is returned, while the
\* cached timestamp (the start of the call that fetched the set) is less than
\* 24 hours old; under every interleaving the cache and its timestamp are both
\* unset or both set by the same completed fetch; a failed fetch leaves both
\* unchanged.
C24_KeyCacheTimestampFresh ==
    /\ []((_apple_keys_cache = <<>>) <=> (_apple_keys_fetched_at = <<>>))
    /\ [][NoFetchWhileTimestampFresh /\ CacheSetByOneFetch]_vars

\* a set that was served after the call that fetched it had started is
\* returned from the cache a minute before its timestamp expires
C24_Witness ==
    /\ resp.op = "_get_apple_public_keys" /\ resp.status = 200 /\ ~resp.body.fetched
    /\ _apple_keys_cache # <<>>
    /\ _apple_keys_cache[1].served_at > _apple_keys_fetched_at[1]
    /\ now - _apple_keys_fetched_at[1] = 24 * 60 - 1

\* call i of the log is made on an initialised service: an init call precedes
\* it and no close call lies between them
InitialisedAt(i) ==
    \E j \in 1..(i - 1) :
        /\ storage_calls[j].op = "init"
        /\ \A k \in (j + 1)..(i - 1) : storage_calls[k].op # "close"

C26_WeightLogged ==
    [][(resp'.op = "log_weight" /\ resp'.caller # NoUser) =>
          /\ resp'.status = 201
          /\ \E w \in weight' \ weight :
                /\ weight' = weight \cup {w}
                /\ w.user_id = resp'.caller
                /\ w.weight_kg = resp'.req.weight_kg
                /\ resp'.body.id = w.id]_vars

\* the profile attributes C27 names
ProfileAttributes ==
    {"display_name", "avatar_url", "daily_calorie_goal", "daily_protein_goal",
     "daily_carbs_goal", "daily_fat_goal", "target_weight", "gender", "birth_year",
     "height_cm", "activity_level"}

\* a GET /user/profile that follows a successful PUT /user/profile of the same
\* user returns the values the PUT set
ReadsBackWhatWasSet ==
    (/\ resp.op = "update_profile" /\ resp.status = 200
     /\ resp'.op = "get_profile" /\ resp'.status = 200 /\ resp'.caller = resp.caller)
    => \A f \in DOMAIN resp.req.payload \cap ProfileAttributes :
           resp'.body[f] = resp.req.payload[f]

\* a successful PUT /user/profile answers every attribute absent from its
\* payload with the value a GET of the same user returned just before it
AbsentKeepPrevious ==
    (/\ resp.op = "get_profile" /\ resp.status = 200
     /\ resp'.op = "update_profile" /\ resp'.status = 200 /\ resp'.caller = resp.caller)
    => \A f \in ProfileAttributes \ DOMAIN resp'.req.payload :
           resp'.body[f] = resp.body[f]

\* C27: after PUT /user/profile with a payload that sets any of the profile
\* attributes, a later GET /user/profile of the same user returns the values
\* that were set, and every attribute absent from the payload keeps its
\* previous value.
C27_ProfileRoundTrips == [][ReadsBackWhatWasSet /\ AbsentKeepPrevious]_vars

\* list is an answer of GET /meals and stats one of GET /stats/daily, both
\* successful, for the same user, date and tz_offset
SameDayAsked(list, stats) ==
    /\ list.op = "get_meals" /\ list.status = 200
    /\ stats.op = "get_daily_stats" /\ stats.status = 200
    /\ list.caller = stats.caller
    /\ Len(list.req.day) = 1 /\ list.req.day = stats.req.date
    /\ list.req.tz_offset = stats.req.tz_offset
\* the figures of the day are the length of the list and the sum over it
FiguresMatchList(list, stats) ==
    /\ stats.body.meal_count = Len(list.body.items)
    /\ stats.body.total_calories =
          SumOver({[i |-> i, total_calories |-> list.body.items[i].total_calories] :
                      i \in DOMAIN list.body.items}, "total_calories")
\* the list of GET /meals is descending in meal_time
MealListNewestFirst ==
    (resp.op = "get_meals" /\ resp.status = 200) =>
        \A i, j \in DOMAIN resp.body.items :
            i < j => InstantOf(resp.body.items[i].meal_time)
                        >= InstantOf(resp.body.items[j].meal_time)

\* C28: for the same user, date D and tz_offset o (no write in between),
\* the meal_count of GET /stats/daily is the number of meals GET /meals
\* returns and its total_calories is the sum over exactly those meals; the
\* list of GET /meals is ordered by meal_time, most recent first.
C28_DailyStatsMatchMealList ==
    /\ []MealListNewestFirst
    /\ [][/\ SameDayAsked(resp, resp') => FiguresMatchList(resp, resp')
          /\ SameDayAsked(resp', resp) => FiguresMatchList(resp', resp)]_vars

\* the list of a day holds two of the caller's three meals, the one of the
\* day's last minute among them, and the day's figures count both
C28_Witness ==
    /\ resp.op = "get_meals" /\ resp.status = 200
    /\ Len(resp.req.day) = 1
    /\ Len(resp.body.items) = 2
    /\ Cardinality({m \in meals : m.user_id = resp.caller}) = 3
    /\ \E i \in DOMAIN resp.body.items :
          InstantOf(resp.body.items[i].meal_time)
             = DayEnd(resp.req.day[1]) - resp.req.tz_offset
    /\ _get_daily_stats(resp.caller, resp.req.day[1], resp.req.tz_offset).meal_count = 2

\* C29: the streak summary of every set of distinct meal dates satisfies
\* 0 <= current_streak <= longest_streak <= total_days_logged, and
\* longest_streak >= 1 exactly when the set is not empty.
C29_StreakSummaryOrdered ==
    (resp.op = "get_streaks" /\ resp.status = 200) =>
        /\ 0 <= resp.body.current_streak
        /\ resp.body.current_streak <= resp.body.longest_streak
        /\ resp.body.longest_streak <= resp.body.total_days_logged
        /\ resp.body.longest_streak >= 1 <=> StreakDates # {}

\* a summary in which all three inequalities are strict
C29_Witness ==
    /\ resp.op = "get_streaks" /\ resp.status = 200
    /\ 0 < resp.body.current_streak
    /\ resp.body.current_streak < resp.body.longest_streak
    /\ resp.body.longest_streak < resp.body.total_days_logged

\* how many meals, water logs and weight logs user u has in the given tables
RowCounts(u, ms, ws, gs) ==
    <<Cardinality({m \in ms : m.user_id = u}), Cardinality({w \in ws : w.user_id = u}),
      Cardinality({w \in gs : w.user_id = u})>>

\* the answer to either of two POST /demo/seed requests of one user whose
\* account was empty before the two: the request finds the account empty or
\* seeded by the other one, and leaves it with 3 meals, 3 water logs and 1
\* weight log
SeedLeavesOneSet ==
    \A u \in {x.id : x \in users} :
        (/\ resp' # resp
         /\ resp'.op = "seed_demo_data" /\ resp'.cred = create_access_token(u)
         /\ RowCounts(u, meals, water, weight) \in {<<0, 0, 0>>, <<3, 3, 1>>})
        => RowCounts(u, meals', water', weight') = <<3, 3, 1>>

\* C30: two POST /demo/seed requests of the same user on an empty account,
\* each with its own session and in any interleaving (one after the other
\* included), leave the user with exactly 3 meals, 3 water logs and 1 weight
\* log.
C30_ConcurrentSeedsLeaveOneSet == [][SeedLeavesOneSet]_vars

====
